---- MODULE Spec2Model ----
(***************************************************************************)
(* A model of the load stage of the Turning Pages ETL (step3_load.py):     *)
(* the payment-method loader (insert only), the book loader (upsert), the  *)
(* customer loader (versioned rows) and the full reload of the fact table. *)
(*                                                                         *)
(* Every SQL statement runs on a connection opened with autocommit=True,   *)
(* so each statement is durable and visible as soon as it has executed.    *)
(* A nullable value is a set with at most one element: None is {} and a    *)
(* present value v is {v}.  Staged cells are the text of the CSV cell; an  *)
(* empty cell is "" (pandas reads it as NaN).                              *)
(***************************************************************************)
EXTENDS Integers, Sequences, FiniteSets, TLC

VARIABLES
    ci,                 \* TRUE when the database collation compares strings case-insensitively
    clock,              \* SYSUTCDATETIME(), advanced once per started stage
    Dim_PaymentMethod,  \* dwh.Dim_PaymentMethod: set of rows
    Dim_Book,           \* dwh.Dim_Book
    Dim_Customer,       \* dwh.Dim_Customer
    Dim_Date,           \* dwh.Dim_Date: set of DateSK
    Fact_Sales,         \* dwh.Fact_Sales
    paym,               \* paymentmethod_stage.csv of the latest transform folder
    book,               \* book_stage.csv
    cust,               \* customer_stage.csv: [hash_col, rows]
    fact,               \* fact_orderitem_stage.csv
    pc,                 \* the statement the process is at
    i,                  \* index of the next staged row of the running loop
    loc,                \* local variables of the running stage
    report,             \* the counters printed by the last stage that completed
    hist,               \* history: what the running stage started from
    trial               \* history: the warehouse a comparison of loader orders began
                        \* from, the order being tried and the outcomes of the
                        \* orders tried so far

vars == <<ci, clock, Dim_PaymentMethod, Dim_Book, Dim_Customer, Dim_Date, Fact_Sales,
          paym, book, cust, fact, pc, i, loc, report, hist, trial>>

(***************************************************************************)
(* Bounds of the model.                                                    *)
(***************************************************************************)
MaxRuns == 2
MaxPaym == 2
MaxBook == 2
MaxCust == 2
MaxFact == 2

(***************************************************************************)
(* Nullable values.                                                        *)
(***************************************************************************)
None == {}
Some(v) == {v}
Val(o) == CHOOSE x \in o : TRUE

SeqsUpTo(S, n) == UNION {[1..k -> S] : k \in 0..n}

Max(S) == CHOOSE x \in S : \A y \in S : y <= x

(***************************************************************************)
(* Text helpers, computed over the texts the staged datasets draw from.    *)
(***************************************************************************)
\* str.strip()
Strip(s) ==
    CASE s = " cc " -> "cc"
      [] s = "  " -> ""
      [] s = " A@X.com " -> "A@X.com"
      [] OTHER -> s

\* str.lower()
Lower(s) ==
    CASE s = "CC" -> "cc"
      [] s = "A@X.com" -> "a@x.com"
      [] s = "978-0-13X" -> "978-0-13x"
      [] s = "0X0A" -> "0x0a"
      [] OTHER -> s

\* to_str: NaN -> None; otherwise the stripped text, None when it is empty
to_str(v) == IF Strip(v) = "" THEN None ELSE Some(Strip(v))

\* to_int: int(v), None for NaN and for a text that is no integer
to_int(v) ==
    CASE v = "2020" -> Some(2020)
      [] v = "1999" -> Some(1999)
      [] v = "300" -> Some(300)
      [] v = "0" -> Some(0)
      [] v = "20240101" -> Some(20240101)
      [] v = "20240102" -> Some(20240102)
      [] v = "20240103" -> Some(20240103)
      [] OTHER -> None

\* to_dec: float(v), None for NaN and for a text that is no number; the model holds
\* a decimal in hundredths
to_dec(v) ==
    CASE v = "19.99" -> Some(1999)
      [] v = "25.00" -> Some(2500)
      [] v = "0" -> Some(0)
      [] v = "2" -> Some(200)
      [] v = "-1" -> Some(-100)
      [] OTHER -> None

\* bytes.fromhex(h), with the bytes written as lower-case hex digits; None when h
\* is no hex text (the ValueError is caught)
fromhex(h) ==
    CASE h = "0a" -> Some("0a")
      [] h = "0b" -> Some("0b")
      [] OTHER -> None

\* to_varbinary_from_hex: None stays None; strip, lower, drop a leading "0x", decode
to_varbinary_from_hex(hex_str) ==
    IF hex_str = None THEN None
    ELSE LET h == Lower(Strip(Val(hex_str)))
             d == IF h = "0x0a" THEN "0a" ELSE h
         IN  IF d = "" THEN None ELSE fromhex(d)

\* COALESCE(?, column)
Coalesce(a, b) == IF a # None THEN a ELSE b

\* The comparison of the WHERE clauses, under the database's collation
SqlEq(a, b) == IF ci THEN Lower(a) = Lower(b) ELSE a = b

\* The value an IDENTITY column gives the next inserted row: each table has its own
\* (faulty variant: one sequence that the dimension tables share)
NextSKShared(table, col) ==
    Max({0} \cup {r[col] : r \in table}
            \cup {r.PaymentMethodSK : r \in Dim_PaymentMethod}
            \cup {r.BookSK : r \in Dim_Book}
            \cup {r.CustomerSK : r \in Dim_Customer}) + 1
NextSK(table, col) == IF table = {} THEN 1 ELSE Max({r[col] : r \in table}) + 1

NoReport == [stage |-> "none"]
NoHist == [stage |-> "none", dim0 |-> {}, rerun |-> FALSE, done |-> FALSE, crashed |-> FALSE]
NoLoc == [stage |-> "none"]
NoTrial == [w |-> [pm |-> {}, bk |-> {}, cu |-> {}], k |-> 0, seen |-> {}]

\* A staged dataset that has not been read
NoRows == <<>>
NoCust == [hash_col |-> TRUE, rows |-> <<>>]
NoFact == [has_required |-> TRUE, rows |-> <<>>]

\* The transform stage runs again after a stage has ended and writes a new folder:
\* the datasets the next stage reads are those of the new folder
Restage ==
    /\ pc \in {"done", "failed"}
    /\ pc' = "idle"
    /\ i' = 1
    /\ loc' = NoLoc
    /\ report' = NoReport
    /\ hist' = [NoHist EXCEPT !.crashed = hist.crashed]
    /\ paym' = NoRows
    /\ book' = NoRows
    /\ cust' = NoCust
    /\ fact' = NoFact
    /\ UNCHANGED <<trial, ci, clock, Dim_PaymentMethod, Dim_Book, Dim_Customer, Dim_Date,
                   Fact_Sales>>

(***************************************************************************)
(* The staged payment-method dataset.                                      *)
(***************************************************************************)
PaymRows ==
    { [code |-> "cc",   name |-> "Credit Card"],
      [code |-> "CC",   name |-> "Credit Card Dup"],
      [code |-> " cc ", name |-> "Credit Card"],
      [code |-> "pp",   name |-> "PayPal"],
      [code |-> "pp",   name |-> "  "],
      [code |-> "",     name |-> "Credit Card"] }
PaymStages == SeqsUpTo(PaymRows, MaxPaym)

(***************************************************************************)
(* stage_paymentmethod_insert_only                                         *)
(***************************************************************************)
\* existing = fetch_set(cur, "SELECT Code FROM Dim_PaymentMethod")
\* (faulty variant: the stored codes are not read)
fetch_existing_codesNothing == {}
fetch_existing_codes == {r.Code : r \in Dim_PaymentMethod}

\* paym = read_stage(latest_transform_dir())["paym"], up to the row loop
PmStart(d, rerun) ==
    /\ clock' = clock + 1
    /\ paym' = d
    /\ pc' = "payment"
    /\ i' = 1
    /\ loc' = [stage |-> "payment", existing |-> fetch_existing_codes, to_insert |-> 0,
               last |-> "none"]
    /\ hist' = [stage |-> "payment", dim0 |-> Dim_PaymentMethod,
                rerun |-> rerun,
                done |-> FALSE, crashed |-> FALSE]
    /\ report' = NoReport
    /\ UNCHANGED <<trial, ci, Dim_PaymentMethod, Dim_Book, Dim_Customer, Dim_Date, Fact_Sales,
                   book, cust, fact>>

\* python step3_load.py --only payment: the dataset is the one the stage that has
\* just completed read when the transform stage has not run since (a rerun), any
\* dataset otherwise
PmBegin ==
    /\ pc \in {"idle", "done"}
    /\ clock < MaxRuns
    /\ \E d \in PaymStages : (pc = "done" => d = paym) /\ PmStart(d, pc = "done")

\* if code_lower in {c.lower() for c in existing}
PmKnown(code, existing) == Lower(code) \in {Lower(c) : c \in existing}

\* existing.add(code)
\* (faulty variant: an inserted code is not remembered)
PmTrackNone(existing, code) == existing
PmTrack(existing, code) == existing \cup {code}

\* What the body of the loop does with one staged row: "invalid" (a required value
\* is missing), "known" (the code is in existing) or "inserted"
PmOutcome(r, existing) ==
    LET code == to_str(r.code)
        name == to_str(r.name)
    IN  IF code = None \/ name = None THEN "invalid"
        ELSE IF PmKnown(Val(code), existing) THEN "known"
        ELSE "inserted"

\* INSERT INTO Dim_PaymentMethod (Code, DisplayName) VALUES (?,?)
PmInsert(table, code, name) ==
    table \cup {[PaymentMethodSK |-> NextSK(table, "PaymentMethodSK"),
                 Code |-> code, DisplayName |-> name]}

\* The table after the body of the loop has run for one staged row
\* (faulty variant: a known code has its DisplayName overwritten)
PmRowTableUpsert(r, existing) ==
    LET code == to_str(r.code)
        name == to_str(r.name)
    IN  CASE PmOutcome(r, existing) = "inserted" ->
                 PmInsert(Dim_PaymentMethod, Val(code), Val(name))
          [] PmOutcome(r, existing) = "known" ->
                 {IF Lower(x.Code) = Lower(Val(code))
                  THEN [x EXCEPT !.DisplayName = Val(name)] ELSE x : x \in Dim_PaymentMethod}
          [] OTHER -> Dim_PaymentMethod
PmRowTable(r, existing) ==
    IF PmOutcome(r, existing) = "inserted"
    THEN PmInsert(Dim_PaymentMethod, Val(to_str(r.code)), Val(to_str(r.name)))
    ELSE Dim_PaymentMethod

PmRow ==
    /\ pc = "payment"
    /\ i <= Len(paym)
    /\ LET r == paym[i]
           out == PmOutcome(r, loc.existing)
       IN  /\ Dim_PaymentMethod' = PmRowTable(r, loc.existing)
           /\ loc' = IF out = "inserted"
                     THEN [loc EXCEPT !.existing = PmTrack(loc.existing, Val(to_str(r.code))),
                                      !.to_insert = loc.to_insert + 1,
                                      !.last = out]
                     ELSE [loc EXCEPT !.last = out]
    /\ i' = i + 1
    /\ UNCHANGED <<trial, ci, clock, Dim_Book, Dim_Customer, Dim_Date, Fact_Sales,
                   paym, book, cust, fact, pc, report, hist>>

\* print(f"[PM ] read=... inserted=... skipped=...")
PmFinish ==
    /\ pc = "payment"
    /\ i > Len(paym)
    /\ pc' = "done"
    /\ report' = [stage |-> "payment", read |-> Len(paym), inserted |-> loc.to_insert,
                  skipped |-> Len(paym) - loc.to_insert]
    /\ hist' = [hist EXCEPT !.done = TRUE]
    /\ UNCHANGED <<trial, ci, clock, Dim_PaymentMethod, Dim_Book, Dim_Customer, Dim_Date,
                   Fact_Sales, paym, book, cust, fact, i, loc>>

InitPM ==
    /\ ci \in BOOLEAN
    /\ clock = 0
    /\ Dim_PaymentMethod = {}
    /\ Dim_Book = {}
    /\ Dim_Customer = {}
    /\ Dim_Date = {}
    /\ Fact_Sales = {}
    /\ paym = NoRows
    /\ book = NoRows
    /\ cust = NoCust
    /\ fact = NoFact
    /\ pc = "idle"
    /\ i = 1
    /\ loc = NoLoc
    /\ report = NoReport
    /\ hist = NoHist
    /\ trial = NoTrial

NextPM == PmBegin \/ PmRow \/ PmFinish \/ Restage

SpecPM == InitPM /\ [][NextPM]_vars

(***************************************************************************)
(* Claims about the payment-method loader, checked under SpecPM.           *)
(***************************************************************************)
PmRunCompleted == pc = "done" /\ report.stage = "payment"

\* C8: a run of the payment-method loader on the dataset of the run completed just
\* before it reports inserted=0 and leaves every row of the table as it was
\* (while it runs and when it has completed).
C8_Idempotent ==
    (pc \in {"payment", "done"} /\ hist.rerun) =>
        /\ Dim_PaymentMethod = hist.dim0
        /\ loc.to_insert = 0
        /\ PmRunCompleted => report.inserted = 0

\* The second run has completed on a dataset of two rows that the first run inserted.
C8_Witness ==
    /\ PmRunCompleted /\ hist.rerun
    /\ report.read = 2
    /\ Cardinality(Dim_PaymentMethod) = 2
    /\ \A k \in 1..2 : \E x \in Dim_PaymentMethod : Some(x.Code) = to_str(paym[k].code)

ScenarioA == << [code |-> "cc", name |-> "Credit Card"],
                [code |-> "CC", name |-> "Credit Card Dup"] >>

\* C9: no two rows of the payment-method table have codes that are equal ignoring
\* case; and the dataset [("cc","Credit Card"), ("CC","Credit Card Dup")] run against
\* the empty table inserts the first row only and skips the second.
C9_UniqueIgnoringCase ==
    /\ \A x, y \in Dim_PaymentMethod : Lower(x.Code) = Lower(y.Code) => x = y
    /\ (PmRunCompleted /\ hist.dim0 = {} /\ paym = ScenarioA) =>
           /\ Dim_PaymentMethod =
                  {[PaymentMethodSK |-> 1, Code |-> "cc", DisplayName |-> "Credit Card"]}
           /\ report.inserted = 1
           /\ report.skipped = 1

\* Scenario A has completed: the second staged row was found in existing.
C9_Witness ==
    /\ PmRunCompleted /\ hist.dim0 = {} /\ paym = ScenarioA
    /\ loc.last = "known"
    /\ loc.existing = {"cc"}

\* C10: no step of the payment-method loader changes or removes a stored row: every
\* row of the table is in the table, with the same Code and DisplayName, after the step.
C10_NoUpdatePath ==
    [][\A x \in Dim_PaymentMethod : x \in Dim_PaymentMethod']_vars

\* A staged row whose code is stored under another DisplayName has just been skipped.
C10_Witness ==
    /\ pc = "payment" /\ i > 1 /\ loc.last = "known"
    /\ \E x \in Dim_PaymentMethod :
          /\ Lower(x.Code) = Lower(Val(to_str(paym[i-1].code)))
          /\ x.DisplayName # Val(to_str(paym[i-1].name))
          /\ x \in hist.dim0

(***************************************************************************)
(* stage_book_upsert_type1                                                 *)
(***************************************************************************)
BookRows ==
    { [isbn |-> "978-0-13", title |-> "Systems Design", language |-> "en",
       publish_year |-> "2020", pages |-> "300", list_price |-> ""],
      [isbn |-> "978-0-13", title |-> "", language |-> "",
       publish_year |-> "", pages |-> "", list_price |-> "19.99"],
      [isbn |-> "978-0-13x", title |-> "Compilers", language |-> "de",
       publish_year |-> "1999", pages |-> "abc", list_price |-> "0"],
      [isbn |-> "978-0-13X", title |-> "Compilers 2e", language |-> "",
       publish_year |-> "2020", pages |-> "", list_price |-> "25.00"],
      [isbn |-> "978-0-13x", title |-> "", language |-> "",
       publish_year |-> "", pages |-> "300", list_price |-> ""],
      [isbn |-> "", title |-> "No Key", language |-> "en",
       publish_year |-> "2020", pages |-> "300", list_price |-> "19.99"] }
BookStages == SeqsUpTo(BookRows, MaxBook)

\* The values the loop body converts one staged row to
BkParams(r) ==
    [isbn |-> to_str(r.isbn), title |-> to_str(r.title), language |-> to_str(r.language),
     publish_year |-> to_int(r.publish_year), pages |-> to_int(r.pages),
     list_price |-> to_dec(r.list_price)]

\* book = read_stage(latest_transform_dir())["book"], up to the row loop
BkStart(d, rerun) ==
    /\ clock' = clock + 1
    /\ book' = d
    /\ pc' = "book"
    /\ i' = 1
    /\ loc' = [stage |-> "book", updated |-> 0, inserted |-> 0, outs |-> <<>>]
    /\ hist' = [stage |-> "book", dim0 |-> Dim_Book,
                rerun |-> rerun,
                done |-> FALSE, crashed |-> FALSE]
    /\ report' = NoReport
    /\ UNCHANGED <<trial, ci, Dim_PaymentMethod, Dim_Book, Dim_Customer, Dim_Date, Fact_Sales,
                   paym, cust, fact>>

\* python step3_load.py --only book
BkBegin ==
    /\ pc \in {"idle", "done"}
    /\ clock < MaxRuns
    /\ \E d \in BookStages : (pc = "done" => d = book) /\ BkStart(d, pc = "done")

\* UPDATE Dim_Book SET Title = COALESCE(?, Title), [Language] = ?, PublishYear = ?,
\*   Pages = ?, ListPrice = COALESCE(?, ListPrice), UpdatedAt = SYSUTCDATETIME()
\* WHERE ISBN = ?
\* (faulty variant: no COALESCE on Title and ListPrice)
BkUpdatePlain(table, a) ==
    {IF SqlEq(x.ISBN, Val(a.isbn))
     THEN [x EXCEPT !.Title = a.title,
                    !.Language = a.language,
                    !.PublishYear = a.publish_year,
                    !.Pages = a.pages,
                    !.ListPrice = a.list_price,
                    !.UpdatedAt = clock]
     ELSE x : x \in table}
BkUpdate(table, a) ==
    {IF SqlEq(x.ISBN, Val(a.isbn))
     THEN [x EXCEPT !.Title = Coalesce(a.title, x.Title),
                    !.Language = a.language,
                    !.PublishYear = a.publish_year,
                    !.Pages = a.pages,
                    !.ListPrice = Coalesce(a.list_price, x.ListPrice),
                    !.UpdatedAt = clock]
     ELSE x : x \in table}

\* cur.rowcount of the UPDATE
\* (faulty variant: the UPDATE never reports a row)
BkRowcountZero(table, a) == 0
\* (faulty variant: the UPDATE sees only the rows stored when the run started)
BkRowcountAtStart(table, a) ==
    Cardinality({x \in hist.dim0 : SqlEq(x.ISBN, Val(a.isbn))})
BkRowcount(table, a) == Cardinality({x \in table : SqlEq(x.ISBN, Val(a.isbn))})

\* INSERT INTO Dim_Book (ISBN, Title, [Language], PublishYear, Pages, ListPrice, UpdatedAt)
\* with list_price = 0.00 when it is None
\* (faulty variant: a null list price is inserted as it is)
BkInsertNoDefault(table, a) ==
    table \cup {[BookSK |-> NextSK(table, "BookSK"), ISBN |-> Val(a.isbn),
                 Title |-> a.title, Language |-> a.language,
                 PublishYear |-> a.publish_year, Pages |-> a.pages,
                 ListPrice |-> a.list_price,
                 UpdatedAt |-> clock]}
BkInsert(table, a) ==
    table \cup {[BookSK |-> NextSK(table, "BookSK"), ISBN |-> Val(a.isbn),
                 Title |-> a.title, Language |-> a.language,
                 PublishYear |-> a.publish_year, Pages |-> a.pages,
                 ListPrice |-> Coalesce(a.list_price, Some(0)),
                 UpdatedAt |-> clock]}

\* What the body of the loop does with one staged row: "nokey" and "notitle" are the
\* two continue statements
BkOutcome(table, a) ==
    IF a.isbn = None THEN "nokey"
    ELSE IF BkRowcount(table, a) > 0 THEN "updated"
    ELSE IF a.title = None THEN "notitle"
    ELSE "inserted"

BkRowTable(table, a) ==
    CASE BkOutcome(table, a) = "updated" -> BkUpdate(table, a)
      [] BkOutcome(table, a) = "inserted" -> BkInsert(table, a)
      [] OTHER -> table

BkRow ==
    /\ pc = "book"
    /\ i <= Len(book)
    /\ LET a == BkParams(book[i])
           out == BkOutcome(Dim_Book, a)
       IN  /\ Dim_Book' = BkRowTable(Dim_Book, a)
           /\ loc' = [loc EXCEPT
                        !.updated = IF out = "updated" THEN loc.updated + 1 ELSE loc.updated,
                        !.inserted = IF out = "inserted" THEN loc.inserted + 1
                                     ELSE loc.inserted,
                        !.outs = Append(loc.outs, out)]
    /\ i' = i + 1
    /\ UNCHANGED <<trial, ci, clock, Dim_PaymentMethod, Dim_Customer, Dim_Date, Fact_Sales,
                   paym, book, cust, fact, pc, report, hist>>

\* print(f"[BK ] read=... updated=... inserted=... unchanged=...")
BkFinish ==
    /\ pc = "book"
    /\ i > Len(book)
    /\ pc' = "done"
    /\ report' = [stage |-> "book", read |-> Len(book), updated |-> loc.updated,
                  inserted |-> loc.inserted,
                  unchanged |-> Len(book) - loc.updated - loc.inserted]
    /\ hist' = [hist EXCEPT !.done = TRUE]
    /\ UNCHANGED <<trial, ci, clock, Dim_PaymentMethod, Dim_Book, Dim_Customer, Dim_Date,
                   Fact_Sales, paym, book, cust, fact, i, loc>>

InitBook ==
    /\ ci \in BOOLEAN
    /\ clock = 0
    /\ Dim_PaymentMethod = {}
    /\ Dim_Book = {}
    /\ Dim_Customer = {}
    /\ Dim_Date = {}
    /\ Fact_Sales = {}
    /\ paym = NoRows
    /\ book = NoRows
    /\ cust = NoCust
    /\ fact = NoFact
    /\ pc = "idle"
    /\ i = 1
    /\ loc = NoLoc
    /\ report = NoReport
    /\ hist = NoHist
    /\ trial = NoTrial

NextBook == BkBegin \/ BkRow \/ BkFinish \/ Restage

SpecBook == InitBook /\ [][NextBook]_vars

(***************************************************************************)
(* Claims about the book loader, checked under SpecBook.                   *)
(***************************************************************************)
BkRunCompleted == pc = "done" /\ report.stage = "book"

\* The step the book loader is about to take updates stored rows
BkUpdating ==
    /\ pc = "book" /\ i <= Len(book)
    /\ BkOutcome(Dim_Book, BkParams(book[i])) = "updated"

\* Stored row x is a row the statement of the next step matches
BkMatched(x) == SqlEq(x.ISBN, Val(BkParams(book[i]).isbn))

\* C6 as stated: in an update of a stored book row, a null staged value of any of
\* Title, Language, PublishYear, Pages, ListPrice leaves a non-null stored value of
\* that attribute unchanged.
C6_Original ==
    [][BkUpdating =>
         LET a == BkParams(book[i])
         IN  \A x \in Dim_Book : BkMatched(x) =>
               \E y \in Dim_Book' :
                 /\ y.BookSK = x.BookSK
                 /\ (a.title = None /\ x.Title # None) => y.Title = x.Title
                 /\ (a.language = None /\ x.Language # None) => y.Language = x.Language
                 /\ (a.publish_year = None /\ x.PublishYear # None)
                       => y.PublishYear = x.PublishYear
                 /\ (a.pages = None /\ x.Pages # None) => y.Pages = x.Pages
                 /\ (a.list_price = None /\ x.ListPrice # None)
                       => y.ListPrice = x.ListPrice]_vars

\* C6 as amended: in an update of a stored book row, a null staged Title or ListPrice
\* leaves the stored Title or ListPrice unchanged, while Language, PublishYear and
\* Pages take the staged value, null included.
C6_Coalesce ==
    [][BkUpdating =>
         LET a == BkParams(book[i])
         IN  \A x \in Dim_Book : BkMatched(x) =>
               \E y \in Dim_Book' :
                 /\ y.BookSK = x.BookSK
                 /\ a.title = None => y.Title = x.Title
                 /\ a.list_price = None => y.ListPrice = x.ListPrice
                 /\ y.Language = a.language
                 /\ y.PublishYear = a.publish_year
                 /\ y.Pages = a.pages]_vars

\* A staged row without title and list price has just updated a stored row that had
\* a language: the title and the price are kept, the language is now null.
C6_Witness ==
    /\ pc = "book" /\ i > 1 /\ loc.outs[i-1] = "updated"
    /\ LET a == BkParams(book[i-1])
       IN  /\ a.title = None /\ a.list_price = None /\ a.language = None
           /\ \E x \in hist.dim0 : \E y \in Dim_Book :
                 /\ SqlEq(x.ISBN, Val(a.isbn))
                 /\ y.BookSK = x.BookSK
                 /\ x.Language # None /\ y.Language = None
                 /\ y.Title = x.Title /\ y.Title # None
                 /\ y.ListPrice = x.ListPrice /\ y.ListPrice # None

\* C7: the book table never holds two rows whose ISBNs the database compares equal,
\* and in a run the first staged row of an absent key inserts the row that every
\* later staged row of that key then updates.
C7_OneRowPerKey ==
    /\ \A x, y \in Dim_Book : SqlEq(x.ISBN, y.ISBN) => x = y
    /\ pc = "book" =>
         \A j, k \in 1..Len(loc.outs) :
            (/\ j < k
             /\ loc.outs[j] = "inserted"
             /\ BkParams(book[k]).isbn # None
             /\ SqlEq(Val(BkParams(book[j]).isbn), Val(BkParams(book[k]).isbn)))
            => loc.outs[k] = "updated"
    /\ BkRunCompleted =>
         Cardinality(Dim_Book) = Cardinality(hist.dim0) + report.inserted

\* A run on two staged rows of one absent key has completed: one insert, one update,
\* one row.
C7_Witness ==
    /\ BkRunCompleted /\ hist.dim0 = {}
    /\ loc.outs = <<"inserted", "updated">>
    /\ Cardinality(Dim_Book) = 1

(***************************************************************************)
(* stage_customer_scd2                                                     *)
(***************************************************************************)
CustRows ==
    { [nk |-> "a@x.com", disp |-> "Ann", phone |-> "111", notes |-> "", hd |-> "0a"],
      [nk |-> " A@X.com ", disp |-> "Ann B", phone |-> "111", notes |-> "vip", hd |-> "0b"],
      [nk |-> "a@x.com", disp |-> "Ann", phone |-> "111", notes |-> "", hd |-> "0X0A"],
      [nk |-> "b@x.com", disp |-> "Bob", phone |-> "", notes |-> "", hd |-> "zz"],
      [nk |-> "", disp |-> "No Key", phone |-> "", notes |-> "", hd |-> "0a"] }
CustStages == [hash_col : BOOLEAN, rows : SeqsUpTo(CustRows, MaxCust)]

\* The values the loop body converts one staged row to
CuParams(r) ==
    [nk |-> to_str(r.nk),
     nk_norm |-> IF to_str(r.nk) = None THEN None ELSE Some(Lower(Val(to_str(r.nk)))),
     disp |-> to_str(r.disp), phone |-> to_str(r.phone), notes |-> to_str(r.notes),
     hd |-> IF cust.hash_col THEN to_varbinary_from_hex(to_str(r.hd)) ELSE None]

\* cust = read_stage(latest_transform_dir())["customer"], up to the row loop
CuStart(d, rerun) ==
    /\ clock' = clock + 1
    /\ cust' = d
    /\ pc' = "customer"
    /\ i' = 1
    /\ loc' = [stage |-> "customer", inserted_new |-> 0, scd2_changed |-> 0,
               unchanged |-> 0, closed_old |-> 0, outs |-> <<>>]
    /\ hist' = [stage |-> "customer", dim0 |-> Dim_Customer, done |-> FALSE,
                rerun |-> rerun,
                crashed |-> hist.crashed]
    /\ report' = NoReport
    /\ UNCHANGED <<trial, ci, Dim_PaymentMethod, Dim_Book, Dim_Customer, Dim_Date, Fact_Sales,
                   paym, book, fact>>

\* python step3_load.py --only customer
CuBegin ==
    /\ pc \in {"idle", "done"}
    /\ clock < MaxRuns
    /\ \E d \in CustStages : (pc = "done" => d = cust) /\ CuStart(d, pc = "done")

\* SELECT TOP (1) CustomerSK, HashDiff FROM Dim_Customer
\* WHERE CustomerNK_Email = ? AND IsCurrent = 1 ORDER BY CustomerSK DESC
\* The result is a set: empty for fetchone() = None, else the one row
\* (faulty variant: the SELECT has no IsCurrent = 1 condition)
CuSelectAnyVersion(table, nk_norm) ==
    LET hits == {x \in table : SqlEq(x.CustomerNK_Email, nk_norm)}
    IN  IF hits = {} THEN {}
        ELSE {CHOOSE x \in hits : \A y \in hits : y.CustomerSK <= x.CustomerSK}
CuSelectCurrent(table, nk_norm) ==
    LET hits == {x \in table : SqlEq(x.CustomerNK_Email, nk_norm) /\ x.IsCurrent}
    IN  IF hits = {} THEN {}
        ELSE {CHOOSE x \in hits : \A y \in hits : y.CustomerSK <= x.CustomerSK}

\* INSERT INTO Dim_Customer (...) VALUES (?, ?, ?, ?, SYSUTCDATETIME(), NULL, 1, ?)
\* (faulty variant: the new row is stored without the staged digest)
CuInsertWithoutDigest(table, a) ==
    table \cup {[CustomerSK |-> NextSK(table, "CustomerSK"),
                 CustomerNK_Email |-> Val(a.nk_norm),
                 DisplayName |-> a.disp, Phone |-> a.phone, Notes |-> a.notes,
                 ValidFrom |-> clock, ValidTo |-> None, IsCurrent |-> TRUE,
                 HashDiff |-> None]}
CuInsert(table, a) ==
    table \cup {[CustomerSK |-> NextSK(table, "CustomerSK"),
                 CustomerNK_Email |-> Val(a.nk_norm),
                 DisplayName |-> a.disp, Phone |-> a.phone, Notes |-> a.notes,
                 ValidFrom |-> clock, ValidTo |-> None, IsCurrent |-> TRUE,
                 HashDiff |-> a.hd]}

\* UPDATE Dim_Customer SET ValidTo = SYSUTCDATETIME(), IsCurrent = 0 WHERE CustomerSK = ?
\* (faulty variants: no close; a close that leaves ValidTo null; a delete)
CuCloseNothing(table, current_sk) == table
CuCloseFlagOnly(table, current_sk) ==
    {IF x.CustomerSK = current_sk THEN [x EXCEPT !.IsCurrent = FALSE] ELSE x : x \in table}
CuCloseDelete(table, current_sk) == {x \in table : x.CustomerSK # current_sk}
CuClose(table, current_sk) ==
    {IF x.CustomerSK = current_sk
     THEN [x EXCEPT !.ValidTo = Some(clock), !.IsCurrent = FALSE]
     ELSE x : x \in table}

\* equal_hash = (current_hash == hd) if (hash_col is not None) else True
\* (faulty variants: the hashes are never found equal; the hashes are compared though
\* the dataset has no HashDiff column)
equal_hashNever(current_hash, hd) == FALSE
equal_hashAlwaysCompared(current_hash, hd) == current_hash = hd
equal_hash(current_hash, hd) == IF cust.hash_col THEN current_hash = hd ELSE TRUE

\* What the loop body does with one staged row: "nokey" (continue), "first" (insert
\* the first version), "changed" (close, then insert) or "unchanged"
CuOutcome(table, a) ==
    IF a.nk = None THEN "nokey"
    ELSE LET row == CuSelectCurrent(table, Val(a.nk_norm))
         IN  IF row = {} THEN "first"
             ELSE IF ~equal_hash(Val(row).HashDiff, a.hd) THEN "changed"
             ELSE "unchanged"

\* One pass of the loop body up to its first write: everything for "nokey", "first"
\* and "unchanged", the closing UPDATE for "changed"
CuRow ==
    /\ pc = "customer"
    /\ i <= Len(cust.rows)
    /\ LET a == CuParams(cust.rows[i])
           out == CuOutcome(Dim_Customer, a)
       IN  CASE out = "first" ->
                  /\ Dim_Customer' = CuInsert(Dim_Customer, a)
                  /\ loc' = [loc EXCEPT !.inserted_new = loc.inserted_new + 1,
                                        !.outs = Append(loc.outs, out)]
                  /\ UNCHANGED pc
                  /\ i' = i + 1
             [] out = "changed" ->
                  /\ Dim_Customer' =
                        CuClose(Dim_Customer,
                                Val(CuSelectCurrent(Dim_Customer, Val(a.nk_norm))).CustomerSK)
                  /\ loc' = [loc EXCEPT !.closed_old = loc.closed_old + 1]
                  /\ pc' = "customer_insert"
                  /\ UNCHANGED i
             [] out = "unchanged" ->
                  /\ loc' = [loc EXCEPT !.unchanged = loc.unchanged + 1,
                                        !.outs = Append(loc.outs, out)]
                  /\ UNCHANGED <<Dim_Customer, pc>>
                  /\ i' = i + 1
             [] OTHER ->
                  /\ loc' = [loc EXCEPT !.outs = Append(loc.outs, out)]
                  /\ UNCHANGED <<Dim_Customer, pc>>
                  /\ i' = i + 1
    /\ UNCHANGED <<trial, ci, clock, Dim_PaymentMethod, Dim_Book, Dim_Date, Fact_Sales,
                   paym, book, cust, fact, report, hist>>

\* The INSERT of the new current version that follows the closing UPDATE
CuInsertNew ==
    /\ pc = "customer_insert"
    /\ Dim_Customer' = CuInsert(Dim_Customer, CuParams(cust.rows[i]))
    /\ loc' = [loc EXCEPT !.scd2_changed = loc.scd2_changed + 1,
                          !.outs = Append(loc.outs, "changed")]
    /\ pc' = "customer"
    /\ i' = i + 1
    /\ UNCHANGED <<trial, ci, clock, Dim_PaymentMethod, Dim_Book, Dim_Date, Fact_Sales,
                   paym, book, cust, fact, report, hist>>

\* print(f"[CUS] read=... inserted_new=... scd2_changed=... closed_old=... unchanged=...")
CuFinish ==
    /\ pc = "customer"
    /\ i > Len(cust.rows)
    /\ pc' = "done"
    /\ report' = [stage |-> "customer", read |-> Len(cust.rows),
                  inserted_new |-> loc.inserted_new, scd2_changed |-> loc.scd2_changed,
                  closed_old |-> loc.closed_old, unchanged |-> loc.unchanged]
    /\ hist' = [hist EXCEPT !.done = TRUE]
    /\ UNCHANGED <<trial, ci, clock, Dim_PaymentMethod, Dim_Book, Dim_Customer, Dim_Date,
                   Fact_Sales, paym, book, cust, fact, i, loc>>

\* The process dies or loses its connection between the closing UPDATE and the
\* INSERT: nothing is rolled back (autocommit), nothing is printed.  (Stopping
\* between two staged rows leaves the table as a completed run on the rows before
\* does.)
CuCrash ==
    /\ pc = "customer_insert"
    /\ pc' = "idle"
    /\ i' = 1
    /\ loc' = NoLoc
    /\ hist' = [NoHist EXCEPT !.crashed = TRUE]
    /\ cust' = NoCust
    /\ UNCHANGED <<trial, ci, clock, Dim_PaymentMethod, Dim_Book, Dim_Customer, Dim_Date,
                   Fact_Sales, paym, book, fact, report>>

InitCust ==
    /\ ci \in BOOLEAN
    /\ clock = 0
    /\ Dim_PaymentMethod = {}
    /\ Dim_Book = {}
    /\ Dim_Customer = {}
    /\ Dim_Date = {}
    /\ Fact_Sales = {}
    /\ paym = NoRows
    /\ book = NoRows
    /\ cust = NoCust
    /\ fact = NoFact
    /\ pc = "idle"
    /\ i = 1
    /\ loc = NoLoc
    /\ report = NoReport
    /\ hist = NoHist
    /\ trial = NoTrial

NextCust == CuBegin \/ CuRow \/ CuInsertNew \/ CuFinish \/ CuCrash \/ Restage

SpecCust == InitCust /\ [][NextCust]_vars

(***************************************************************************)
(* Claims about the customer loader, checked under SpecCust.               *)
(***************************************************************************)
CuRunCompleted == pc = "done" /\ report.stage = "customer"

\* The rows of natural key nk that are current
CuCurrent(nk) == {x \in Dim_Customer : x.CustomerNK_Email = nk /\ x.IsCurrent}

\* The natural keys the run has processed so far
CuProcessed ==
    {Val(CuParams(cust.rows[k]).nk_norm) :
        k \in {j \in 1..Len(loc.outs) : CuParams(cust.rows[j]).nk # None}}

\* C1: no key ever has two current rows; when a run has completed, every key it
\* processed has exactly one current row; and as long as no run has been cut short,
\* every key of the table has exactly one current row between the rows of a run and
\* after it.
C1_OneCurrentRow ==
    /\ \A x \in Dim_Customer : Cardinality(CuCurrent(x.CustomerNK_Email)) <= 1
    /\ CuRunCompleted => \A nk \in CuProcessed : Cardinality(CuCurrent(nk)) = 1
    /\ (~hist.crashed /\ pc \in {"idle", "customer", "done"}) =>
          \A x \in Dim_Customer : Cardinality(CuCurrent(x.CustomerNK_Email)) = 1

\* A completed run has closed a version of a key and opened the next one.
C1_Witness ==
    /\ CuRunCompleted
    /\ report.scd2_changed >= 1
    /\ \E nk \in CuProcessed :
          /\ Cardinality(CuCurrent(nk)) = 1
          /\ \E x \in Dim_Customer : x.CustomerNK_Email = nk /\ ~x.IsCurrent

\* C2: in every state, between the statements of a run included, a customer row has
\* ValidTo null exactly when it has IsCurrent true.
C2_ValidToIffCurrent ==
    \A x \in Dim_Customer : (x.ValidTo = None) <=> x.IsCurrent

\* The closing UPDATE has run and the INSERT that follows it has not: the key has a
\* closed row and no current one.
C2_Witness ==
    /\ pc = "customer_insert"
    /\ LET nk == Val(CuParams(cust.rows[i]).nk_norm)
       IN  /\ CuCurrent(nk) = {}
           /\ \E x \in Dim_Customer :
                 x.CustomerNK_Email = nk /\ ~x.IsCurrent /\ x.ValidTo = Some(clock)

\* C3: no step deletes a customer row, changes a row's natural key or changes a
\* closed row: every row is still there after the step, and a closed row is there
\* unchanged.
C3_AppendOnly ==
    [][\A x \in Dim_Customer :
         \E y \in Dim_Customer' :
            /\ y.CustomerSK = x.CustomerSK
            /\ y.CustomerNK_Email = x.CustomerNK_Email
            /\ ~x.IsCurrent => y = x]_vars

\* A later run has written a new version of a key that an earlier run had closed a
\* version of; the closed version is still in the table.
C3_Witness ==
    /\ CuRunCompleted /\ clock = 2
    /\ \E x \in hist.dim0 : \E y \in Dim_Customer :
          /\ ~x.IsCurrent /\ x \in Dim_Customer
          /\ y.CustomerNK_Email = x.CustomerNK_Email
          /\ y.ValidFrom = 2

(***************************************************************************)
(* stage_build_lookups, fetch_valid_dates_for, stage_fact_reload           *)
(***************************************************************************)
FactRows ==
    { [isbn |-> "978-0-13", cust |-> "a@x.com", code |-> "cc", dkey |-> "20240101",
       qty |-> "2", price |-> "19.99", order |-> "SO-1", ship |-> "1 Main St"],
      [isbn |-> "978-0-13X", cust |-> " A@X.com ", code |-> "CC", dkey |-> "20240102",
       qty |-> "2", price |-> "25.00", order |-> "SO-2", ship |-> "1 Main St"],
      [isbn |-> "978-0-13", cust |-> "a@x.com", code |-> "cc", dkey |-> "20240103",
       qty |-> "2", price |-> "19.99", order |-> "SO-3", ship |-> "1 Main St"],
      [isbn |-> "978-0-13", cust |-> "a@x.com", code |-> "cc", dkey |-> "20240101",
       qty |-> "0", price |-> "19.99", order |-> "SO-4", ship |-> "1 Main St"],
      [isbn |-> "978-0-13", cust |-> "b@x.com", code |-> "pp", dkey |-> "20240101",
       qty |-> "-1", price |-> "19.99", order |-> "SO-5", ship |-> "1 Main St"],
      [isbn |-> "978-0-13x", cust |-> "b@x.com", code |-> "pp", dkey |-> "20240101",
       qty |-> "2", price |-> "25.00", order |-> "SO-6", ship |-> "1 Main St"],
      [isbn |-> "978-0-13", cust |-> "a@x.com", code |-> "cc", dkey |-> "20240101",
       qty |-> "2", price |-> "19.99", order |-> "", ship |-> "1 Main St"],
      [isbn |-> "978-0-13", cust |-> "a@x.com", code |-> "cc", dkey |-> "0",
       qty |-> "2", price |-> "19.99", order |-> "SO-8", ship |-> "1 Main St"],
      [isbn |-> "978-0-13", cust |-> "a@x.com", code |-> "cc", dkey |-> "20240103",
       qty |-> "0", price |-> "19.99", order |-> "SO-9", ship |-> "1 Main St"] }

\* has_required: every required column is in the schema under one of its names
FactStages ==
    [has_required : {TRUE}, rows : SeqsUpTo(FactRows, MaxFact)]
    \cup [has_required : {FALSE}, rows : SeqsUpTo(FactRows, 1)]

\* The values the loop body converts one staged row to
FtParams(r) ==
    [isbn |-> to_str(r.isbn), cust |-> to_str(r.cust), code |-> to_str(r.code),
     dkey |-> to_int(r.dkey), qty |-> to_dec(r.qty), price |-> to_dec(r.price),
     order |-> to_str(r.order), ship |-> to_str(r.ship)]

\* fetch_map: the dicts a query's (key, value) rows can give; of two rows with one
\* key the later one wins, and the query states no order
fetch_map(pairs) ==
    {f \in [{p[1] : p \in pairs} -> {p[2] : p \in pairs}] :
        \A k \in DOMAIN f : <<k, f[k]>> \in pairs}

\* The dicts stage_build_lookups can return
\* (faulty variant: the customer query has no IsCurrent=1 condition)
stage_build_lookupsAllVersions ==
    [pm : fetch_map({<<Lower(x.Code), x.PaymentMethodSK>> : x \in Dim_PaymentMethod}),
     bk : fetch_map({<<Lower(x.ISBN), x.BookSK>> : x \in Dim_Book}),
     cu : fetch_map({<<Lower(x.CustomerNK_Email), x.CustomerSK>> : x \in Dim_Customer})]
stage_build_lookups ==
    [pm : fetch_map({<<Lower(x.Code), x.PaymentMethodSK>> : x \in Dim_PaymentMethod}),
     bk : fetch_map({<<Lower(x.ISBN), x.BookSK>> : x \in Dim_Book}),
     cu : fetch_map({<<Lower(x.CustomerNK_Email), x.CustomerSK>> :
                        x \in {y \in Dim_Customer : y.IsCurrent}})]

\* dict.get(key)
Get(map, key) == IF key \in DOMAIN map THEN Some(map[key]) ELSE None

\* distinct_dates = set(int(x) for x in pd.unique(fact[datecol].dropna()))
distinct_dates(rows) ==
    {Val(to_int(rows[k].dkey)) : k \in {j \in 1..Len(rows) : to_int(rows[j].dkey) # None}}

\* The keys fetch_valid_dates_for puts in the IN list: for k in keys if k
placeholders(keys) == {k \in keys : k # 0}

\* fetch_valid_dates_for raises: the IN list is empty though keys is not
valid_dates_error(keys) == keys # {} /\ placeholders(keys) = {}

\* SELECT DateSK FROM Dim_Date WHERE DateSK IN (placeholders)
\* (faulty variant: the keys are not checked against Dim_Date)
fetch_valid_dates_forUnchecked(keys) == placeholders(keys)
fetch_valid_dates_for(keys) == IF keys = {} THEN {} ELSE Dim_Date \cap placeholders(keys)

\* Python truth of a converted value: None, 0 and 0.0 are false
TruthyStr(o) == o # None
TruthyNum(o) == o # None /\ Val(o) # 0

\* all([isbn, cust, code, dkey, qty, price, order, ship])
all_required(a) ==
    /\ TruthyStr(a.isbn) /\ TruthyStr(a.cust) /\ TruthyStr(a.code)
    /\ TruthyNum(a.dkey) /\ TruthyNum(a.qty) /\ TruthyNum(a.price)
    /\ TruthyStr(a.order) /\ TruthyStr(a.ship)

\* The surrogate keys the three lookups give a row that has its natural keys
FtResolve(a, lk) ==
    [bk |-> Get(lk.bk, Lower(Val(a.isbn))),
     cu |-> Get(lk.cu, Lower(Val(a.cust))),
     pm |-> Get(lk.pm, Lower(Val(a.code)))]

\* not bk or not cu or not pm
FtUnresolved(sk) == ~TruthyNum(sk.bk) \/ ~TruthyNum(sk.cu) \/ ~TruthyNum(sk.pm)

\* The checks from key resolution on
FtResolveOutcome(a, lk) == IF FtUnresolved(FtResolve(a, lk)) THEN "fk_missing" ELSE "inserted"

\* The branch the loop body takes for one staged row
FtOutcome(a, lk, valid_dates) ==
    IF ~all_required(a) THEN "invalid_req"
    ELSE IF Val(a.dkey) \notin valid_dates THEN "invalid_date"
    ELSE IF a.qty = None \/ Val(a.qty) <= 0 THEN "qty_zero"
    ELSE FtResolveOutcome(a, lk)

\* The counters the loop body increments for one staged row: each branch ends in
\* continue, so it is the counter of the branch taken
\* (faulty variant: the quantity branch does not continue)
FtBucketsNoContinue(a, lk, valid_dates) ==
    IF FtOutcome(a, lk, valid_dates) = "qty_zero"
    THEN {"qty_zero", FtResolveOutcome(a, lk)}
    ELSE {FtOutcome(a, lk, valid_dates)}
FtBuckets(a, lk, valid_dates) == {FtOutcome(a, lk, valid_dates)}

\* INSERT INTO Fact_Sales (BookSK, CustomerSK, PaymentMethodSK, DateSK, Quantity,
\*                         UnitPriceAtSale, OrderNumber, ShippingAddress)
FtInsert(table, a, sk) ==
    table \cup {[SalesID |-> NextSK(table, "SalesID"),
                 BookSK |-> Val(sk.bk), CustomerSK |-> Val(sk.cu),
                 PaymentMethodSK |-> Val(sk.pm), DateSK |-> Val(a.dkey),
                 Quantity |-> Val(a.qty), UnitPriceAtSale |-> Val(a.price),
                 OrderNumber |-> Val(a.order), ShippingAddress |-> Val(a.ship)]}

Bump(counters, buckets) ==
    [b \in DOMAIN counters |-> IF b \in buckets THEN counters[b] + 1 ELSE counters[b]]

\* for req, nm in [...]: if req is None: raise KeyError("Fact stage is missing
\* required column")
\* (faulty variant: the columns are not checked)
missing_requiredIgnored(d) == FALSE
missing_required(d) == ~d.has_required

\* The stage up to the truncate: read the dataset, resolve the columns, build the
\* lookups, read the valid dates.  A missing column raises KeyError, an empty IN list
\* makes the query fail: the stage ends before the truncate
\* if not pm: miss["pm"] += 1; if not bk: miss["bk"] += 1; if not cu: miss["cu"] += 1
\* (faulty variant: an elif chain, which counts the first unresolved dimension only)
FtMissedFirstOnly(sk) ==
    IF ~TruthyNum(sk.pm) THEN {"pm"}
    ELSE IF ~TruthyNum(sk.bk) THEN {"bk"}
    ELSE IF ~TruthyNum(sk.cu) THEN {"cu"} ELSE {}
FtMissed(sk) == {d \in {"pm", "bk", "cu"} : ~TruthyNum(sk[d])}

FtStart(d, rerun) ==
    /\ fact' = d
    /\ hist' = [stage |-> "fact", dim0 |-> Fact_Sales, rerun |-> rerun,
                done |-> FALSE, crashed |-> hist.crashed]
    /\ i' = 1
    /\ IF missing_required(fact') \/ valid_dates_error(distinct_dates(fact'.rows))
       THEN /\ pc' = "failed"
            /\ loc' = NoLoc
            /\ report' = [stage |-> "fact", error |-> TRUE]
       ELSE /\ pc' = "fact_truncate"
            /\ \E lk \in stage_build_lookups :
                 loc' = [stage |-> "fact", lk |-> lk,
                         valid_dates |-> fetch_valid_dates_for(distinct_dates(fact'.rows)),
                         n |-> [inserted |-> 0, fk_missing |-> 0, invalid_req |-> 0,
                                invalid_date |-> 0, qty_zero |-> 0],
                         miss |-> [pm |-> 0, bk |-> 0, cu |-> 0],
                         outs |-> <<>>, truncates |-> 0]
            /\ report' = NoReport
    /\ UNCHANGED <<trial, ci, clock, Dim_PaymentMethod, Dim_Book, Dim_Customer, Dim_Date,
                   Fact_Sales, paym, book, cust>>

\* python step3_load.py --only fact
FtBegin ==
    /\ pc \in {"idle", "done"}
    /\ \E d \in FactStages : (pc = "done" => d = fact) /\ FtStart(d, pc = "done")

\* TRUNCATE TABLE Fact_Sales; loc.truncates counts the truncates of the run
\* (faulty variant: the loop starts without the truncate)
FtTruncateSkipped ==
    /\ pc = "fact_truncate"
    /\ pc' = "fact"
    /\ UNCHANGED <<trial, ci, clock, Dim_PaymentMethod, Dim_Book, Dim_Customer, Dim_Date,
                   Fact_Sales, paym, book, cust, fact, i, loc, report, hist>>
FtTruncate ==
    /\ pc = "fact_truncate"
    /\ Fact_Sales' = {}
    /\ loc' = [loc EXCEPT !.truncates = loc.truncates + 1]
    /\ pc' = "fact"
    /\ UNCHANGED <<trial, ci, clock, Dim_PaymentMethod, Dim_Book, Dim_Customer, Dim_Date,
                   paym, book, cust, fact, i, report, hist>>

FtRow ==
    /\ pc = "fact"
    /\ i <= Len(fact.rows)
    /\ LET a == FtParams(fact.rows[i])
           buckets == FtBuckets(a, loc.lk, loc.valid_dates)
           sk == FtResolve(a, loc.lk)
       IN  /\ Fact_Sales' = IF "inserted" \in buckets THEN FtInsert(Fact_Sales, a, sk)
                            ELSE Fact_Sales
           /\ loc' = [loc EXCEPT
                 !.n = Bump(loc.n, buckets),
                 !.miss = IF "fk_missing" \in buckets
                          THEN Bump(loc.miss, FtMissed(sk))
                          ELSE loc.miss,
                 !.outs = Append(loc.outs, buckets)]
    /\ i' = i + 1
    /\ UNCHANGED <<trial, ci, clock, Dim_PaymentMethod, Dim_Book, Dim_Customer, Dim_Date,
                   paym, book, cust, fact, pc, report, hist>>

\* print(f"[FCT] read=... inserted=... fk_missing=... (pm=, book=, cust=) invalid_req=...
\*        invalid_date=... qty_leq0=...")
FtFinish ==
    /\ pc = "fact"
    /\ i > Len(fact.rows)
    /\ pc' = "done"
    /\ report' = [stage |-> "fact", read |-> Len(fact.rows), inserted |-> loc.n.inserted,
                  fk_missing |-> loc.n.fk_missing, miss |-> loc.miss,
                  invalid_req |-> loc.n.invalid_req, invalid_date |-> loc.n.invalid_date,
                  qty_zero |-> loc.n.qty_zero]
    /\ hist' = [hist EXCEPT !.done = TRUE]
    /\ UNCHANGED <<trial, ci, clock, Dim_PaymentMethod, Dim_Book, Dim_Customer, Dim_Date,
                   Fact_Sales, paym, book, cust, fact, i, loc>>

\* The process dies, loses its connection or has an INSERT rejected in the row loop,
\* after the truncate and before the last staged row is done: every statement that
\* has run is final (autocommit), nothing is printed
\* (faulty variant: the statements of the run are rolled back)
FtCrashRollsBack ==
    /\ pc = "fact"
    /\ i <= Len(fact.rows)
    /\ pc' = "failed"
    /\ Fact_Sales' = hist.dim0
    /\ report' = [stage |-> "fact", error |-> TRUE]
    /\ hist' = [hist EXCEPT !.crashed = TRUE]
    /\ UNCHANGED <<trial, ci, clock, Dim_PaymentMethod, Dim_Book, Dim_Customer, Dim_Date,
                   paym, book, cust, fact, i, loc>>
FtCrash ==
    /\ pc = "fact"
    /\ i <= Len(fact.rows)
    /\ pc' = "failed"
    /\ report' = [stage |-> "fact", error |-> TRUE]
    /\ hist' = [hist EXCEPT !.crashed = TRUE]
    /\ UNCHANGED <<trial, ci, clock, Dim_PaymentMethod, Dim_Book, Dim_Customer, Dim_Date,
                   Fact_Sales, paym, book, cust, fact, i, loc>>

(***************************************************************************)
(* Warehouses the fact reload starts from: the empty one the DDL creates   *)
(* (with its calendar) and ones the three dimension loaders leave behind.  *)
(***************************************************************************)
Calendar == {20240101, 20240102}

PaymLoaded ==
    { [PaymentMethodSK |-> 1, Code |-> "CC", DisplayName |-> "Credit Card Dup"] }

BookLoaded ==
    { [BookSK |-> 1, ISBN |-> "978-0-13", Title |-> Some("Systems Design"),
       Language |-> Some("en"), PublishYear |-> Some(2020), Pages |-> Some(300),
       ListPrice |-> Some(0), UpdatedAt |-> 1],
      [BookSK |-> 2, ISBN |-> "978-0-13x", Title |-> Some("Compilers"),
       Language |-> Some("de"), PublishYear |-> Some(1999), Pages |-> None,
       ListPrice |-> Some(0), UpdatedAt |-> 1] }

\* Under a case-sensitive collation "978-0-13X" is another key than "978-0-13x"
BookLoadedBothCases ==
    { [BookSK |-> 1, ISBN |-> "978-0-13x", Title |-> Some("Compilers"),
       Language |-> Some("de"), PublishYear |-> Some(1999), Pages |-> None,
       ListPrice |-> Some(0), UpdatedAt |-> 1],
      [BookSK |-> 2, ISBN |-> "978-0-13X", Title |-> Some("Compilers 2e"),
       Language |-> None, PublishYear |-> Some(2020), Pages |-> None,
       ListPrice |-> Some(2500), UpdatedAt |-> 1] }

CustLoaded ==
    { [CustomerSK |-> 1, CustomerNK_Email |-> "a@x.com", DisplayName |-> Some("Ann"),
       Phone |-> Some("111"), Notes |-> None, ValidFrom |-> 1, ValidTo |-> Some(1),
       IsCurrent |-> FALSE, HashDiff |-> Some("0a")],
      [CustomerSK |-> 2, CustomerNK_Email |-> "a@x.com", DisplayName |-> Some("Ann B"),
       Phone |-> Some("111"), Notes |-> Some("vip"), ValidFrom |-> 1, ValidTo |-> None,
       IsCurrent |-> TRUE, HashDiff |-> Some("0b")] }

Warehouses ==
    { [pm |-> {}, bk |-> {}, cu |-> {}, ci_ok |-> TRUE],
      [pm |-> PaymLoaded, bk |-> BookLoaded, cu |-> CustLoaded, ci_ok |-> TRUE],
      [pm |-> PaymLoaded, bk |-> BookLoadedBothCases, cu |-> CustLoaded, ci_ok |-> FALSE] }

InitFact ==
    /\ ci \in BOOLEAN
    /\ clock = 1
    /\ \E w \in Warehouses :
          /\ ci => w.ci_ok
          /\ Dim_PaymentMethod = w.pm
          /\ Dim_Book = w.bk
          /\ Dim_Customer = w.cu
    /\ Dim_Date = Calendar
    /\ Fact_Sales = {}
    /\ paym = NoRows
    /\ book = NoRows
    /\ cust = NoCust
    /\ fact = NoFact
    /\ pc = "idle"
    /\ i = 1
    /\ loc = NoLoc
    /\ report = NoReport
    /\ hist = NoHist
    /\ trial = NoTrial

NextFact == FtBegin \/ FtTruncate \/ FtRow \/ FtFinish \/ FtCrash \/ Restage

SpecFact == InitFact /\ [][NextFact]_vars

(***************************************************************************)
(* main() without --only: the full path, every stage once, in one process. *)
(* Every stage reads the datasets of the same (latest) transform folder.   *)
(***************************************************************************)
TransformFolders ==
    { [paym |-> << [code |-> "cc", name |-> "Credit Card"],
                   [code |-> "pp", name |-> "PayPal"] >>,
       book |-> << [isbn |-> "978-0-13", title |-> "Systems Design", language |-> "en",
                    publish_year |-> "2020", pages |-> "300", list_price |-> ""],
                   [isbn |-> "978-0-13x", title |-> "Compilers", language |-> "de",
                    publish_year |-> "1999", pages |-> "abc", list_price |-> "0"] >>,
       cust |-> [hash_col |-> TRUE,
                 rows |-> << [nk |-> "a@x.com", disp |-> "Ann", phone |-> "111",
                              notes |-> "", hd |-> "0a"],
                             [nk |-> "b@x.com", disp |-> "Bob", phone |-> "",
                              notes |-> "", hd |-> "zz"] >>],
       fact |-> [has_required |-> TRUE,
                 rows |-> << [isbn |-> "978-0-13", cust |-> "a@x.com", code |-> "cc",
                              dkey |-> "20240101", qty |-> "2", price |-> "19.99",
                              order |-> "SO-1", ship |-> "1 Main St"],
                             [isbn |-> "978-0-13x", cust |-> "b@x.com", code |-> "pp",
                              dkey |-> "20240101", qty |-> "2", price |-> "25.00",
                              order |-> "SO-6", ship |-> "1 Main St"] >>] ],
      [paym |-> << [code |-> "CC", name |-> "Credit Card Dup"] >>,
       book |-> << [isbn |-> "978-0-13X", title |-> "Compilers 2e", language |-> "",
                    publish_year |-> "2020", pages |-> "", list_price |-> "25.00"] >>,
       cust |-> [hash_col |-> TRUE,
                 rows |-> << [nk |-> "a@x.com", disp |-> "Ann", phone |-> "111",
                              notes |-> "", hd |-> "0a"],
                             [nk |-> " A@X.com ", disp |-> "Ann B", phone |-> "111",
                              notes |-> "vip", hd |-> "0b"] >>],
       fact |-> [has_required |-> TRUE,
                 rows |-> << [isbn |-> "978-0-13X", cust |-> " A@X.com ", code |-> "CC",
                              dkey |-> "20240102", qty |-> "2", price |-> "25.00",
                              order |-> "SO-2", ship |-> "1 Main St"] >>] ],
      [paym |-> << [code |-> "cc", name |-> "Credit Card"] >>,
       book |-> << [isbn |-> "978-0-13", title |-> "Systems Design", language |-> "en",
                    publish_year |-> "2020", pages |-> "300", list_price |-> ""] >>,
       cust |-> [hash_col |-> FALSE,
                 rows |-> << [nk |-> "a@x.com", disp |-> "Ann", phone |-> "111",
                              notes |-> "", hd |-> "0a"] >>],
       fact |-> [has_required |-> FALSE,
                 rows |-> << [isbn |-> "978-0-13", cust |-> "a@x.com", code |-> "cc",
                              dkey |-> "20240101", qty |-> "2", price |-> "19.99",
                              order |-> "SO-1", ship |-> "1 Main St"] >>] ],
      [paym |-> << >>, book |-> << >>, cust |-> [hash_col |-> TRUE, rows |-> << >>],
       fact |-> [has_required |-> TRUE,
                 rows |-> << [isbn |-> "978-0-13", cust |-> "a@x.com", code |-> "cc",
                              dkey |-> "0", qty |-> "2", price |-> "19.99",
                              order |-> "SO-8", ship |-> "1 Main St"] >>] ] }

\* The stages of the full path, in the order main() calls them
AllStages == <<"prechecks", "payment", "book", "customer", "fact", "checks">>
StageIndex(s) == CHOOSE k \in 1..Len(AllStages) : AllStages[k] = s

\* stage_prechecks: connect, find the latest transform folder and read its four
\* files; FileNotFoundError when there is no folder or a file is missing
AllPrechecks ==
    /\ pc = "idle"
    /\ \/ \E f \in TransformFolders :
             /\ paym' = f.paym /\ book' = f.book /\ cust' = f.cust /\ fact' = f.fact
             /\ pc' = "done"
             /\ report' = [stage |-> "prechecks",
                           rows |-> [paym |-> Len(f.paym), book |-> Len(f.book),
                                     cust |-> Len(f.cust.rows), fact |-> Len(f.fact.rows)]]
       \/ /\ pc' = "failed"
          /\ report' = [stage |-> "prechecks", error |-> TRUE]
          /\ UNCHANGED <<paym, book, cust, fact>>
    /\ UNCHANGED <<trial, ci, clock, Dim_PaymentMethod, Dim_Book, Dim_Customer, Dim_Date,
                   Fact_Sales, i, loc, hist>>

\* The calls of main() that follow stage_prechecks(): each starts when the call
\* before it has returned
AllPayment == pc = "done" /\ report.stage = "prechecks" /\ PmStart(paym, FALSE)
AllBook == pc = "done" /\ report.stage = "payment" /\ BkStart(book, FALSE)
AllCustomer == pc = "done" /\ report.stage = "book" /\ CuStart(cust, FALSE)
\* (faulty variant: stage_fact_reload is called before stage_customer_scd2)
AllFactEarly == pc = "done" /\ report.stage = "book" /\ FtStart(fact, FALSE)
AllFact == pc = "done" /\ report.stage = "customer" /\ FtStart(fact, FALSE)

\* stage_checks: count the rows of the five tables
AllChecks ==
    /\ pc = "done" /\ report.stage = "fact"
    /\ pc' = "done"
    /\ report' = [stage |-> "checks",
                  counts |-> [Dim_PaymentMethod |-> Cardinality(Dim_PaymentMethod),
                              Dim_Book |-> Cardinality(Dim_Book),
                              Dim_Customer |-> Cardinality(Dim_Customer),
                              Dim_Date |-> Cardinality(Dim_Date),
                              Fact_Sales |-> Cardinality(Fact_Sales)]]
    /\ UNCHANGED <<trial, ci, clock, Dim_PaymentMethod, Dim_Book, Dim_Customer, Dim_Date,
                   Fact_Sales, paym, book, cust, fact, i, loc, hist>>

\* connect(DB_DWH) raises at the start of the next stage: the exception leaves
\* main() and the process ends
AllConnectFails ==
    /\ pc = "done" /\ report.stage \in {"prechecks", "payment", "book", "customer", "fact"}
    /\ pc' = "failed"
    /\ report' = [stage |-> AllStages[StageIndex(report.stage) + 1], error |-> TRUE]
    /\ UNCHANGED <<trial, ci, clock, Dim_PaymentMethod, Dim_Book, Dim_Customer, Dim_Date,
                   Fact_Sales, paym, book, cust, fact, i, loc, hist>>

InitAll ==
    /\ ci \in BOOLEAN
    /\ clock = 1
    /\ \E w \in Warehouses :
          /\ ci => w.ci_ok
          /\ Dim_PaymentMethod = w.pm
          /\ Dim_Book = w.bk
          /\ Dim_Customer = w.cu
    /\ Dim_Date = Calendar
    /\ Fact_Sales = {}
    /\ paym = NoRows
    /\ book = NoRows
    /\ cust = NoCust
    /\ fact = NoFact
    /\ pc = "idle"
    /\ i = 1
    /\ loc = NoLoc
    /\ report = NoReport
    /\ hist = NoHist
    /\ trial = NoTrial

NextAll ==
    \/ AllPrechecks
    \/ AllPayment \/ PmRow \/ PmFinish
    \/ AllBook \/ BkRow \/ BkFinish
    \/ AllCustomer \/ CuRow \/ CuInsertNew \/ CuFinish
    \/ AllFact \/ FtTruncate \/ FtRow \/ FtFinish \/ FtCrash
    \/ AllChecks
    \/ AllConnectFails

SpecAll == InitAll /\ [][NextAll]_vars

(***************************************************************************)
(* Claims about the fact reload, checked under SpecFact.                   *)
(***************************************************************************)
FtRunCompleted == pc = "done" /\ report.stage = "fact"

FtBucketNames == {"inserted", "invalid_req", "invalid_date", "qty_zero", "fk_missing"}

\* The number of staged rows processed so far that were counted in bucket b
FtCounted(b) == Cardinality({k \in 1..Len(loc.outs) : b \in loc.outs[k]})

\* C4: while the reload runs, each counter is the number of processed rows counted in
\* its bucket and every processed row is counted in exactly one bucket; when the
\* reload has completed, the five reported counters sum to the number of staged rows.
C4_Partition ==
    /\ pc \in {"fact", "done"} =>
          /\ \A b \in FtBucketNames : loc.n[b] = FtCounted(b)
          /\ \A k \in 1..Len(loc.outs) : Cardinality(loc.outs[k]) = 1
          /\ loc.n.inserted + loc.n.invalid_req + loc.n.invalid_date + loc.n.qty_zero
                + loc.n.fk_missing = Len(loc.outs)
    /\ FtRunCompleted =>
          /\ Len(loc.outs) = Len(fact.rows)
          /\ report.read = Len(fact.rows)
          /\ report.inserted + report.invalid_req + report.invalid_date + report.qty_zero
                + report.fk_missing = report.read
          /\ report.inserted = Cardinality(Fact_Sales)

\* A reload of two staged rows has completed with one row inserted and one rejected.
C4_Witness ==
    /\ FtRunCompleted
    /\ report.read = 2
    /\ report.inserted = 1
    /\ report.qty_zero + report.invalid_date + report.fk_missing = 1

\* C5: every row of the fact table carries surrogate keys of rows that are in the
\* three dimension tables, and a date key that is in the calendar table.
C5_ReferentialIntegrity ==
    \A f \in Fact_Sales :
       /\ \E x \in Dim_Book : x.BookSK = f.BookSK
       /\ \E x \in Dim_Customer : x.CustomerSK = f.CustomerSK
       /\ \E x \in Dim_PaymentMethod : x.PaymentMethodSK = f.PaymentMethodSK
       /\ f.DateSK \in Dim_Date

\* A reload has inserted a row next to a staged row that it rejected for a date key
\* that is not in the calendar table.
C5_Witness ==
    /\ pc \in {"fact", "done"}
    /\ Fact_Sales # {}
    /\ loc.n.invalid_date >= 1

\* C11: when a required column is missing from the staged fact dataset, the reload
\* ends with an error before the truncate: the step that reads the dataset leaves the
\* fact table and the three dimension tables as they were, and the stage has failed.
C11_MissingColumnAborts ==
    [][~fact'.has_required =>
          /\ pc' = "failed"
          /\ report'.error
          /\ Fact_Sales' = Fact_Sales
          /\ UNCHANGED <<Dim_PaymentMethod, Dim_Book, Dim_Customer, Dim_Date>>]_vars

\* A reload has failed on a dataset without a required column while the fact table
\* held the rows of an earlier reload; they are still there.
C11_Witness ==
    /\ pc = "failed" /\ ~fact.has_required
    /\ Fact_Sales # {}
    /\ Fact_Sales = hist.dim0

\* The row checks as the contract words them, over the converted values of a staged
\* row: a required value is null or empty; the date key is not in the calendar table;
\* the quantity is null, zero or negative; a natural key has no row to resolve to
FtFields == {"isbn", "cust", "code", "dkey", "qty", "price", "order", "ship"}
FtFailsRequired(a) == \E f \in FtFields : a[f] = None
FtFailsDate(a) == Val(a.dkey) \notin Dim_Date
FtFailsQuantity(a) == Val(a.qty) <= 0
FtFailsResolution(a) ==
    \/ ~\E x \in Dim_Book : Lower(x.ISBN) = Lower(Val(a.isbn))
    \/ ~\E x \in Dim_Customer : x.IsCurrent /\ Lower(x.CustomerNK_Email) = Lower(Val(a.cust))
    \/ ~\E x \in Dim_PaymentMethod : Lower(x.Code) = Lower(Val(a.code))

\* The bucket of the first check a row fails, in the order required fields, date key,
\* quantity, key resolution
FtFirstFailure(a) ==
    IF FtFailsRequired(a) THEN "invalid_req"
    ELSE IF FtFailsDate(a) THEN "invalid_date"
    ELSE IF FtFailsQuantity(a) THEN "qty_zero"
    ELSE IF FtFailsResolution(a) THEN "fk_missing"
    ELSE "inserted"

\* The converted values of the k-th staged fact row
FtRowAt(k) == FtParams(fact.rows[k])

\* C12: every processed row is counted under the first check it fails, in the order
\* required fields, date key, quantity, key resolution, and under no other; a row
\* that has every required value and a date key that is not in the calendar table is
\* counted under invalid_date and is not inserted, whether or not its keys resolve.
C12_FixedOrder ==
    pc \in {"fact", "done"} =>
       \A k \in 1..Len(loc.outs) :
          /\ loc.outs[k] = {FtFirstFailure(FtRowAt(k))}
          /\ (~FtFailsRequired(FtRowAt(k)) /\ FtFailsDate(FtRowAt(k))) =>
                /\ loc.outs[k] = {"invalid_date"}
                /\ \A f \in Fact_Sales : f.OrderNumber # Val(FtRowAt(k).order)

\* A row that has every required value, a date key that is not in the calendar table
\* and a quantity of zero has been processed and counted under invalid_req.
C12_Diverges ==
    /\ pc \in {"fact", "done"}
    /\ \E k \in 1..Len(loc.outs) :
          /\ ~FtFailsRequired(FtRowAt(k)) /\ FtFailsDate(FtRowAt(k))
          /\ FtRowAt(k).qty = Some(0)
          /\ loc.outs[k] = {"invalid_req"}

\* Every row of the fact table has a quantity above zero
FtQuantityPositive == \A f \in Fact_Sales : f.Quantity > 0

\* C13: a processed row that has every required value, a date key in the set of valid
\* calendar keys and a quantity of zero or less is counted under qty_zero and under
\* no other bucket, and is not inserted; every row of the fact table has a quantity
\* above zero.
C13_QtyZero ==
    /\ FtQuantityPositive
    /\ pc \in {"fact", "done"} =>
          \A k \in 1..Len(loc.outs) :
             (/\ ~FtFailsRequired(FtRowAt(k))
              /\ Val(FtRowAt(k).dkey) \in loc.valid_dates
              /\ Val(FtRowAt(k).qty) <= 0)
             => /\ loc.outs[k] = {"qty_zero"}
                /\ \A f \in Fact_Sales : f.OrderNumber # Val(FtRowAt(k).order)

\* A row that has every required value, a valid date key and a quantity of zero has
\* been processed and counted under invalid_req, while a row with a negative quantity
\* is counted under qty_zero.
C13_Diverges ==
    /\ pc \in {"fact", "done"}
    /\ \E k \in 1..Len(loc.outs) :
          /\ ~FtFailsRequired(FtRowAt(k))
          /\ Val(FtRowAt(k).dkey) \in loc.valid_dates
          /\ FtRowAt(k).qty = Some(0)
          /\ loc.outs[k] = {"invalid_req"}
    /\ \E k \in 1..Len(loc.outs) :
          /\ Val(FtRowAt(k).qty) < 0
          /\ loc.outs[k] = {"qty_zero"}

\* The step the customer loader is about to take processes staged row i of a dataset
\* that has no HashDiff column
CuRowWithoutDigest == pc = "customer" /\ i <= Len(cust.rows) /\ ~cust.hash_col

\* C14: when the staged customer dataset has no digest column, a staged row of a key
\* that has a current row writes nothing and is counted as unchanged, whatever its
\* attributes; a staged row of a key without a current row inserts the first version.
C14_NoDigestUnchanged ==
    [][CuRowWithoutDigest =>
         LET a == CuParams(cust.rows[i])
         IN  a.nk # None =>
               IF CuCurrent(Val(a.nk_norm)) # {}
               THEN /\ Dim_Customer' = Dim_Customer
                    /\ pc' = "customer"
                    /\ loc' = [loc EXCEPT !.unchanged = loc.unchanged + 1,
                                          !.outs = Append(loc.outs, "unchanged")]
               ELSE /\ Dim_Customer \subseteq Dim_Customer'
                    /\ Cardinality(Dim_Customer') = Cardinality(Dim_Customer) + 1
                    /\ \E y \in Dim_Customer' \ Dim_Customer :
                          /\ y.CustomerNK_Email = Val(a.nk_norm)
                          /\ y.IsCurrent /\ y.ValidTo = None
                          /\ y.DisplayName = a.disp
                    /\ loc'.inserted_new = loc.inserted_new + 1
                    /\ loc'.closed_old = loc.closed_old]_vars

\* A dataset without digest column has been loaded: a staged row whose display name
\* differs from the one of its key's current row was counted as unchanged, and the
\* run closed no row.
C14_Witness ==
    /\ pc \in {"customer", "done"} /\ ~cust.hash_col
    /\ loc.closed_old = 0
    /\ Dim_Customer = hist.dim0
    /\ \E k \in 1..Len(loc.outs) :
          /\ loc.outs[k] = "unchanged"
          /\ \E x \in CuCurrent(Val(CuParams(cust.rows[k]).nk_norm)) :
                /\ x.DisplayName # CuParams(cust.rows[k]).disp
                /\ x.HashDiff # None

\* The staged rows among the first k that the run counted as inserted
FtInsertedUpTo(k) == {j \in 1..k : loc.outs[j] = {"inserted"}}

\* The rows a run that starts from the empty table inserts for the staged rows it has
\* counted as inserted: one row each, numbered in the order of the dataset
FtRowsOfThisRun ==
    {[SalesID |-> Cardinality(FtInsertedUpTo(k)),
      BookSK |-> loc.lk.bk[Lower(Val(FtRowAt(k).isbn))],
      CustomerSK |-> loc.lk.cu[Lower(Val(FtRowAt(k).cust))],
      PaymentMethodSK |-> loc.lk.pm[Lower(Val(FtRowAt(k).code))],
      DateSK |-> Val(FtRowAt(k).dkey), Quantity |-> Val(FtRowAt(k).qty),
      UnitPriceAtSale |-> Val(FtRowAt(k).price),
      OrderNumber |-> Val(FtRowAt(k).order),
      ShippingAddress |-> Val(FtRowAt(k).ship)] : k \in FtInsertedUpTo(Len(loc.outs))}

\* C15: the fact reload truncates exactly once per run, after the lookups are built
\* and before the first insert; from the truncate on, the fact table holds exactly
\* the rows this run has inserted, one for each staged row counted as inserted, and
\* no row of an earlier run.
C15_TruncateThenInsert ==
    /\ pc = "fact_truncate" =>
          /\ loc.truncates = 0 /\ loc.outs = <<>>
          /\ loc.lk \in stage_build_lookups
          /\ Fact_Sales = hist.dim0
    /\ pc = "fact" =>
          /\ loc.truncates = 1
          /\ Fact_Sales = FtRowsOfThisRun
    /\ FtRunCompleted =>
          /\ loc.truncates = 1
          /\ Fact_Sales = FtRowsOfThisRun
          /\ Cardinality(Fact_Sales) = report.inserted

\* A reload has completed with one row inserted, on a table that held two other rows
\* when the run started.
C15_Witness ==
    /\ FtRunCompleted
    /\ report.inserted = 1
    /\ Cardinality(hist.dim0) = 2
    /\ hist.dim0 \cap Fact_Sales = {}

\* The step the book loader is about to take inserts a row
BkInserting ==
    /\ pc = "book" /\ i <= Len(book)
    /\ BkOutcome(Dim_Book, BkParams(book[i])) = "inserted"

\* The book table of Scenario B after its first run
ScenarioB_Inserted ==
    {[BookSK |-> 1, ISBN |-> "978-0-13", Title |-> Some("Systems Design"),
      Language |-> Some("en"), PublishYear |-> Some(2020), Pages |-> Some(300),
      ListPrice |-> Some(0), UpdatedAt |-> 1]}

\* C16: every row of the book table has a ListPrice, before and after every step; a
\* staged row of a new key with a title and no list price is inserted with ListPrice
\* 0.00; a staged row of a stored key that carries a list price and no title sets
\* ListPrice to the staged value and leaves Title as it was.
C16_ListPriceNeverNull ==
    [][/\ \A x \in Dim_Book : x.ListPrice # None
       /\ \A y \in Dim_Book' : y.ListPrice # None
       /\ BkInserting =>
            LET a == BkParams(book[i])
            IN  a.list_price = None =>
                  \E y \in Dim_Book' \ Dim_Book :
                     /\ y.ISBN = Val(a.isbn)
                     /\ y.Title = a.title
                     /\ y.ListPrice = Some(0)
       /\ BkUpdating =>
            LET a == BkParams(book[i])
            IN  (a.title = None /\ a.list_price # None) =>
                  \A x \in Dim_Book : BkMatched(x) =>
                     \E y \in Dim_Book' :
                        /\ y.BookSK = x.BookSK
                        /\ y.ListPrice = a.list_price
                        /\ y.Title = x.Title]_vars

\* Scenario B has completed: the first run inserted the row with ListPrice 0.00, the
\* second run, on a staged row with the list price only, set ListPrice to 19.99 and
\* left the title.
C16_Witness ==
    /\ BkRunCompleted
    /\ hist.dim0 = ScenarioB_Inserted
    /\ report.read = 1 /\ report.updated = 1
    /\ BkParams(book[1]).title = None /\ BkParams(book[1]).list_price = Some(1999)
    /\ \E y \in Dim_Book :
          /\ y.BookSK = 1 /\ y.Title = Some("Systems Design")
          /\ y.ListPrice = Some(1999)

\* The step the customer loader is about to take processes a staged row that has no
\* natural key
CuRejecting ==
    /\ pc = "customer" /\ i <= Len(cust.rows)
    /\ CuParams(cust.rows[i]).nk = None

\* The counters the customer loader reports, next to read
CuBucketNames == {"inserted_new", "scd2_changed", "closed_old", "unchanged"}

\* C17 (versioned loader): a staged row that fails validation does not end the run;
\* the loader goes on to the next staged row, writes nothing for the rejected row and
\* counts it in one of the counters it reports.
C17_RejectedRowsTallied ==
    [][CuRejecting =>
          /\ pc' = "customer" /\ i' = i + 1
          /\ Dim_Customer' = Dim_Customer
          /\ \E b \in CuBucketNames : loc'[b] = loc[b] + 1]_vars

\* A run of the customer loader has completed on a dataset with a staged row without
\* natural key: the table is as it was and every reported counter is zero.
C17_Diverges ==
    /\ CuRunCompleted
    /\ report.read = 1
    /\ CuParams(cust.rows[1]).nk = None
    /\ Dim_Customer = hist.dim0
    /\ \A b \in CuBucketNames : report[b] = 0

\* C17 (versioned loader, without the counters): a rejected staged row ends no run
\* and causes no write, and the loader goes on to the next staged row.
C17_CustomerSkips ==
    [][CuRejecting =>
          /\ pc' = "customer" /\ i' = i + 1
          /\ Dim_Customer' = Dim_Customer]_vars

\* C17 (fixed loader): a staged row without code or name ends no run and causes no
\* write, the loader goes on to the next staged row, and the reported skipped counts
\* the row.
C17_PaymentSkips ==
    [][(pc = "payment" /\ i <= Len(paym) /\ PmOutcome(paym[i], loc.existing) = "invalid") =>
          /\ pc' = "payment" /\ i' = i + 1
          /\ Dim_PaymentMethod' = Dim_PaymentMethod
          /\ Len(paym) - loc'.to_insert >= Cardinality({k \in 1..i :
                 PmOutcome(paym[k], {}) = "invalid"})]_vars

\* C17 (overwrite loader): a staged row without key, or of a new key without title,
\* ends no run and causes no write, the loader goes on to the next staged row, and
\* the reported unchanged counts the row.
C17_BookSkips ==
    [][(/\ pc = "book" /\ i <= Len(book)
        /\ BkOutcome(Dim_Book, BkParams(book[i])) \in {"nokey", "notitle"}) =>
          /\ pc' = "book" /\ i' = i + 1
          /\ Dim_Book' = Dim_Book
          /\ Len(book) - loc'.updated - loc'.inserted >= Cardinality({k \in 1..i :
                 loc'.outs[k] \in {"nokey", "notitle"}})]_vars

\* C17 (fact reload, row loop): a staged row that fails a row check or key resolution
\* ends no run and causes no write, the loader goes on to the next staged row, and
\* one of the four rejection counters counts the row.
C17_FactSkips ==
    [][(/\ pc = "fact" /\ i <= Len(fact.rows)
        /\ FtOutcome(FtRowAt(i), loc.lk, loc.valid_dates) # "inserted") =>
          /\ pc' = "fact" /\ i' = i + 1
          /\ Fact_Sales' = Fact_Sales
          /\ \E b \in FtBucketNames \ {"inserted"} : loc'.n[b] = loc.n[b] + 1]_vars

\* C17 (fact reload, before the row loop): a reload of a dataset that has every
\* required column does not end with an error.
C17_FactNeverAborts == pc = "failed" => ~fact.has_required

\* The place of the full path: 0 before stage_prechecks, else the index of the stage
\* that is running or was the last to end
AllAt ==
    IF pc = "idle" THEN 0
    ELSE IF pc \in {"done", "failed"} THEN StageIndex(report.stage)
    ELSE StageIndex(loc.stage)

\* C18: in the full path every step stays in its stage or goes to the next stage of
\* the order prechecks, payment, book, customer, fact, checks; a stage starts only
\* when the stage before it has ended without error; no step follows a fatal error;
\* and the lookups of the fact reload are read when the customer loader, the last of
\* the three dimension loaders, has ended.
C18_FixedStageOrder ==
    [][/\ pc # "failed"
       /\ AllAt' \in {AllAt, AllAt + 1}
       /\ AllAt' = AllAt + 1 => pc \in {"idle", "done"}
       /\ (pc' = "fact_truncate" /\ pc # "fact_truncate") =>
             /\ pc = "done" /\ report.stage = "customer"
             /\ loc'.lk \in stage_build_lookups]_vars

\* The full path has run to the end of stage_checks, and the fact table holds a row
\* of a customer version that the customer loader of this run inserted.
C18_Witness ==
    /\ pc = "done" /\ report.stage = "checks"
    /\ \E f \in Fact_Sales : \E x \in Dim_Customer :
          /\ x.CustomerSK = f.CustomerSK
          /\ x.ValidFrom = 4

\* The full path has ended with a fatal error in the fact reload after the three
\* dimension loaders completed: stage_checks has not run.
C18_WitnessFailed ==
    /\ pc = "failed" /\ report.stage = "fact"
    /\ hist.stage = "fact"
    /\ Dim_Customer # {}

\* The rows of natural key nk in a customer table
CuRowsOf(table, nk) == {x \in table : x.CustomerNK_Email = nk}

\* The step the customer loader is about to take processes a staged row whose digest
\* differs from the digest of its key's current row
CuChanging ==
    /\ pc = "customer" /\ i <= Len(cust.rows)
    /\ CuOutcome(Dim_Customer, CuParams(cust.rows[i])) = "changed"

\* C19: for a staged row whose digest differs from the one of its key's current row,
\* the loader first closes the current row (ValidTo set, IsCurrent false) and inserts
\* nothing, and in its next step inserts one current row with the staged attributes
\* and digest: the key has one row more than before the close and one current row.
\* When a run has completed, closed_old equals scd2_changed.
C19_CloseThenInsert ==
    [][/\ CuChanging =>
            LET nk == Val(CuParams(cust.rows[i]).nk_norm)
                old == Val(CuSelectCurrent(Dim_Customer, nk))
            IN  /\ pc' = "customer_insert"
                /\ Dim_Customer' = (Dim_Customer \ {old}) \cup
                      {[old EXCEPT !.ValidTo = Some(clock), !.IsCurrent = FALSE]}
                /\ loc'.closed_old = loc.closed_old + 1
                /\ loc'.scd2_changed = loc.scd2_changed
       /\ (pc = "customer_insert" /\ pc' = "customer") =>
            LET a == CuParams(cust.rows[i])
                nk == Val(a.nk_norm)
            IN  /\ CuCurrent(nk) = {}
                /\ Dim_Customer \subseteq Dim_Customer'
                /\ Cardinality(Dim_Customer') = Cardinality(Dim_Customer) + 1
                /\ Cardinality(CuRowsOf(Dim_Customer', nk))
                      = Cardinality(CuRowsOf(Dim_Customer, nk)) + 1
                /\ \E y \in Dim_Customer' \ Dim_Customer :
                      /\ y.CustomerNK_Email = nk /\ y.IsCurrent /\ y.ValidTo = None
                      /\ y.DisplayName = a.disp /\ y.Phone = a.phone /\ y.Notes = a.notes
                      /\ y.HashDiff = a.hd
                      /\ {x \in CuRowsOf(Dim_Customer', nk) : x.IsCurrent} = {y}
                /\ loc'.scd2_changed = loc.scd2_changed + 1
                /\ loc'.closed_old = loc.closed_old
                /\ i' = i + 1
       /\ pc' = "done" => report'.closed_old = report'.scd2_changed]_vars

\* Scenario C has completed its last run: the key that was loaded with one digest has
\* been staged with another; the run reports scd2_changed=1 and closed_old=1, and the
\* key has two rows, one of them current and carrying the staged digest.
C19_Witness ==
    /\ CuRunCompleted /\ cust.hash_col
    /\ report.read = 1 /\ report.scd2_changed = 1 /\ report.closed_old = 1
    /\ LET a == CuParams(cust.rows[1])
       IN  /\ Cardinality(CuRowsOf(Dim_Customer, Val(a.nk_norm))) = 2
           /\ Cardinality(CuRowsOf(hist.dim0, Val(a.nk_norm))) = 1
           /\ \E y \in CuCurrent(Val(a.nk_norm)) :
                 CuCurrent(Val(a.nk_norm)) = {y} /\ y.HashDiff = a.hd /\ a.hd # None

\* The step the customer loader is about to take processes a staged row whose digest
\* is the digest of its key's current row (the dataset has a digest column)
CuDigestEqual ==
    /\ pc = "customer" /\ i <= Len(cust.rows) /\ cust.hash_col
    /\ CuParams(cust.rows[i]).nk # None
    /\ \E x \in CuCurrent(Val(CuParams(cust.rows[i]).nk_norm)) :
          x.HashDiff = CuParams(cust.rows[i]).hd

\* C20: for a staged row whose digest equals the digest of its key's current row the
\* loader writes nothing: the customer table (every attribute, ValidFrom, ValidTo,
\* IsCurrent and digest of every row) and every other table are as they were, and
\* the row is counted under unchanged and under no other counter.
C20_UnchangedNoWrite ==
    [][CuDigestEqual =>
          /\ Dim_Customer' = Dim_Customer
          /\ UNCHANGED <<Dim_PaymentMethod, Dim_Book, Dim_Date, Fact_Sales>>
          /\ pc' = "customer" /\ i' = i + 1
          /\ loc' = [loc EXCEPT !.unchanged = loc.unchanged + 1,
                                !.outs = Append(loc.outs, "unchanged")]]_vars

\* A staged row whose digest text is written in upper case with a 0x prefix has been
\* counted as unchanged against the current row that holds the same digest bytes,
\* and the table is as it was when the run started.
C20_Witness ==
    /\ pc \in {"customer", "done"} /\ cust.hash_col
    /\ Dim_Customer = hist.dim0
    /\ \E k \in 1..Len(loc.outs) :
          /\ loc.outs[k] = "unchanged"
          /\ cust.rows[k].hd = "0X0A"
          /\ \E x \in CuCurrent(Val(CuParams(cust.rows[k]).nk_norm)) :
                x.HashDiff = Some("0a")

\* A run of the customer loader on the dataset of the run completed just before it
\* has completed (the dataset has a digest column)
CuRerunCompleted == CuRunCompleted /\ hist.rerun /\ cust.hash_col

\* No natural key is staged in two rows of the customer dataset with different digests
CuOneDigestPerKey ==
    \A j, k \in 1..Len(cust.rows) :
       (/\ CuParams(cust.rows[j]).nk # None
        /\ CuParams(cust.rows[j]).nk_norm = CuParams(cust.rows[k]).nk_norm)
       => CuParams(cust.rows[j]).hd = CuParams(cust.rows[k]).hd

\* C21: a run of the customer loader on the dataset of the run completed just before
\* it, with a digest column, reports inserted_new=0, scd2_changed=0 and closed_old=0
\* and leaves the customer table as it was, whatever the dataset.
C21_RerunNoVersions ==
    CuRerunCompleted =>
       /\ report.inserted_new = 0
       /\ report.scd2_changed = 0
       /\ report.closed_old = 0
       /\ Dim_Customer = hist.dim0

\* The second run on a dataset that stages one key in two rows with different digests
\* has completed: it closed two versions and opened two.
C21_Diverges ==
    /\ CuRerunCompleted
    /\ ~CuOneDigestPerKey
    /\ report.read = 2
    /\ report.scd2_changed = 2 /\ report.closed_old = 2
    /\ Cardinality(Dim_Customer) = Cardinality(hist.dim0) + 2

\* C21 for the datasets that stage every key with one digest: the second run opens
\* and closes no version.
C21_RerunOneDigestPerKey ==
    (CuRerunCompleted /\ CuOneDigestPerKey) =>
       /\ report.inserted_new = 0
       /\ report.scd2_changed = 0
       /\ report.closed_old = 0
       /\ Dim_Customer = hist.dim0

\* The step the customer loader is about to take processes a staged row of a key that
\* has closed rows and no current row
CuRepairing ==
    /\ pc = "customer" /\ i <= Len(cust.rows)
    /\ CuParams(cust.rows[i]).nk # None
    /\ CuRowsOf(Dim_Customer, Val(CuParams(cust.rows[i]).nk_norm)) # {}
    /\ CuCurrent(Val(CuParams(cust.rows[i]).nk_norm)) = {}

\* C22: when the customer loader stops between the closing UPDATE and the INSERT,
\* nothing is rolled back and the key is left without current row; a later run that
\* stages a key without current row inserts a current version through the
\* first-version path and keeps every stored row as it is (no closed row is reopened
\* or deleted), so the key has exactly one current row again; and a run that
\* completes leaves every key it processed with exactly one current row.
C22_CrashRepairedByNextRun ==
    [][/\ (pc = "customer_insert" /\ pc' = "idle") =>
             /\ Dim_Customer' = Dim_Customer
             /\ CuCurrent(Val(CuParams(cust.rows[i]).nk_norm)) = {}
             /\ CuRowsOf(Dim_Customer, Val(CuParams(cust.rows[i]).nk_norm)) # {}
       /\ CuRepairing =>
             LET a == CuParams(cust.rows[i])
                 nk == Val(a.nk_norm)
             IN  /\ pc' = "customer" /\ i' = i + 1
                 /\ loc'.inserted_new = loc.inserted_new + 1
                 /\ loc'.closed_old = loc.closed_old
                 /\ loc'.scd2_changed = loc.scd2_changed
                 /\ Dim_Customer \subseteq Dim_Customer'
                 /\ Cardinality(Dim_Customer') = Cardinality(Dim_Customer) + 1
                 /\ Cardinality({y \in CuRowsOf(Dim_Customer', nk) : y.IsCurrent}) = 1
                 /\ \A y \in Dim_Customer' \ Dim_Customer :
                       /\ y.CustomerNK_Email = nk /\ y.IsCurrent
                       /\ y.HashDiff = a.hd /\ y.DisplayName = a.disp
       /\ (pc = "customer" /\ pc' = "done") =>
             \A nk \in CuProcessed : Cardinality(CuCurrent(nk)) = 1]_vars

\* A run stopped between the close and the insert of a key, and the next run, which
\* staged that key, has completed: it counted the key as a first version, the closed
\* rows it found are still there, and the key has one current row.
C22_Witness ==
    /\ CuRunCompleted /\ hist.crashed
    /\ report.inserted_new >= 1
    /\ hist.dim0 \subseteq Dim_Customer
    /\ \E nk \in CuProcessed :
          /\ CuRowsOf(hist.dim0, nk) # {}
          /\ \A x \in CuRowsOf(hist.dim0, nk) : ~x.IsCurrent
          /\ Cardinality(CuCurrent(nk)) = 1

\* The fact reload has stopped in its row loop
FtStopped == pc = "failed" /\ loc.stage = "fact"

\* C23: when the fact reload stops after the truncate and before the end of its row
\* loop, the fact table holds exactly the rows the run had inserted for the staged
\* rows it had processed, and nothing of what it held when the run started; the next
\* reload that completes leaves exactly its own inserted rows, one for each staged
\* row it counted as inserted.
C23_CrashLeavesPrefix ==
    /\ FtStopped =>
          /\ loc.truncates = 1
          /\ Len(loc.outs) < Len(fact.rows)
          /\ Fact_Sales = FtRowsOfThisRun
          /\ Cardinality(Fact_Sales) = loc.n.inserted
    /\ (FtRunCompleted /\ hist.crashed) =>
          /\ Len(loc.outs) = Len(fact.rows)
          /\ Fact_Sales = FtRowsOfThisRun
          /\ Cardinality(Fact_Sales) = report.inserted

\* A reload that started from a table of two rows has stopped after its first staged
\* row, which it inserted, with a staged row left that it would have inserted: the
\* table holds that one row and none of the two.
C23_Witness ==
    /\ FtStopped
    /\ Cardinality(hist.dim0) = 2
    /\ Len(loc.outs) = 1 /\ loc.n.inserted = 1
    /\ Cardinality(Fact_Sales) = 1
    /\ Fact_Sales \cap hist.dim0 = {}
    /\ FtOutcome(FtRowAt(2), loc.lk, loc.valid_dates) = "inserted"

\* A reload has completed after an earlier reload had stopped in its row loop and
\* left one row behind.
C23_WitnessRepaired ==
    /\ FtRunCompleted /\ hist.crashed
    /\ Cardinality(hist.dim0) = 1
    /\ report.inserted = 2

\* Staged book rows j and k, j before k, have been processed, carry one natural key,
\* and the book table held no row of that key when the run started
BkSameNewKey(j, k) ==
    /\ j < k /\ k <= Len(loc.outs)
    /\ BkParams(book[j]).isbn # None /\ BkParams(book[k]).isbn # None
    /\ SqlEq(Val(BkParams(book[j]).isbn), Val(BkParams(book[k]).isbn))
    /\ \A x \in hist.dim0 : ~SqlEq(x.ISBN, Val(BkParams(book[j]).isbn))

\* C24 as stated: when two rows of one staged book dataset carry the same natural key
\* and the key is absent from the book table at the start of the run, both rows take
\* the insert path and each executes an INSERT.
C24_Original ==
    pc \in {"book", "done"} =>
       \A j, k \in 1..Len(loc.outs) :
          BkSameNewKey(j, k) => (loc.outs[j] = "inserted" /\ loc.outs[k] = "inserted")

\* Some row before row k, of the key of row k, has executed an INSERT
BkInsertedBefore(k) ==
    \E m \in 1..(k - 1) : BkSameNewKey(m, k) /\ loc.outs[m] = "inserted"

\* C24 as amended: of the rows of one staged book dataset that carry the same natural
\* key, absent from the book table at the start of the run, at most one executes an
\* INSERT: a row takes the update path exactly when a row of the key before it has
\* been inserted, and otherwise takes the insert branch (INSERT, or nothing when it
\* has no title).
C24_InsertThenUpdate ==
    pc \in {"book", "done"} =>
       \A j, k \in 1..Len(loc.outs) :
          BkSameNewKey(j, k) =>
             /\ ~(loc.outs[j] = "inserted" /\ loc.outs[k] = "inserted")
             /\ loc.outs[k] = "updated" <=> BkInsertedBefore(k)
             /\ ~BkInsertedBefore(k) => loc.outs[k] \in {"inserted", "notitle"}

\* A run on two staged rows of one key, absent from the empty table, has completed:
\* the first row was inserted and the second, which carries a list price only,
\* updated the row the first had inserted.
C24_Witness ==
    /\ BkRunCompleted /\ hist.dim0 = {}
    /\ report.read = 2 /\ report.inserted = 1 /\ report.updated = 1
    /\ BkSameNewKey(1, 2)
    /\ book[1].isbn = book[2].isbn
    /\ \E x \in Dim_Book : Dim_Book = {x} /\ x.ListPrice = Some(1999)

\* The customer version a fact row refers to
FtCustomerOf(f) == {x \in Dim_Customer : x.CustomerSK = f.CustomerSK}

\* C25: from the truncate of a fact reload on, every row of the fact table carries
\* the surrogate key of a customer version that is current (the customer table is as
\* it was when the lookups were built), and never the key of a closed version.
C25_CurrentCustomerOnly ==
    (loc.stage = "fact" /\ loc.truncates = 1) =>
       \A f \in Fact_Sales :
          /\ FtCustomerOf(f) # {}
          /\ \A x \in FtCustomerOf(f) : x.IsCurrent /\ x.ValidTo = None
          /\ \A nk \in DOMAIN loc.lk.cu :
                \E x \in Dim_Customer : x.CustomerSK = loc.lk.cu[nk] /\ x.IsCurrent

\* A reload has completed and inserted a row for a customer that has a closed
\* version next to its current one: the row carries the key of the current version.
C25_Witness ==
    /\ FtRunCompleted
    /\ \E f \in Fact_Sales : \E x \in FtCustomerOf(f) : \E y \in Dim_Customer :
          /\ x.IsCurrent
          /\ ~y.IsCurrent
          /\ y.CustomerNK_Email = x.CustomerNK_Email
          /\ y.CustomerSK # f.CustomerSK

\* The staged rows processed so far that the run counted under fk_missing
FtFkMissingRows == {k \in 1..Len(loc.outs) : loc.outs[k] = {"fk_missing"}}

\* The dimensions whose key staged row k did not resolve in
FtMissedBy(k) ==
    {d \in {"pm", "bk", "cu"} : ~TruthyNum(FtResolve(FtRowAt(k), loc.lk)[d])}

\* C26: while the fact reload runs and when it has ended, fk_missing is the number of
\* processed rows that passed the row checks and have a key that does not resolve,
\* each per-dimension counter is the number of those rows that did not resolve in
\* that dimension, every such row missed at least one dimension, and therefore
\* fk_missing <= pm + bk + cu <= 3 * fk_missing and each of pm, bk, cu <= fk_missing.
C26_MissBreakdown ==
    (loc.stage = "fact" /\ loc.truncates = 1) =>
       /\ loc.n.fk_missing = Cardinality(FtFkMissingRows)
       /\ \A d \in {"pm", "bk", "cu"} :
             /\ loc.miss[d] = Cardinality({k \in FtFkMissingRows : d \in FtMissedBy(k)})
             /\ loc.miss[d] <= loc.n.fk_missing
       /\ \A k \in FtFkMissingRows : FtMissedBy(k) # {}
       /\ loc.n.fk_missing <= loc.miss.pm + loc.miss.bk + loc.miss.cu
       /\ loc.miss.pm + loc.miss.bk + loc.miss.cu <= 3 * loc.n.fk_missing
       /\ FtRunCompleted =>
             /\ report.fk_missing = loc.n.fk_missing
             /\ report.miss = loc.miss

\* A reload has completed with two rows counted under fk_missing that did not miss
\* the same dimensions: the sum of the per-dimension counters lies strictly between
\* fk_missing and 3 * fk_missing, and one counter is below fk_missing.
C26_Witness ==
    /\ FtRunCompleted
    /\ report.fk_missing = 2
    /\ report.miss.pm + report.miss.bk + report.miss.cu \in 3..5
    /\ \E d \in {"pm", "bk", "cu"} : report.miss[d] < report.fk_missing

(***************************************************************************)
(* The three dimension loaders in every order.  The loaders are run one    *)
(* after another by `python step3_load.py --only <stage>`, in the order    *)
(* Orders[trial.k], and the fact reload follows.  To compare the orders,   *)
(* the outcome of each is kept in trial.seen and the warehouse is put back *)
(* to the contents the comparison began from before the next order runs.   *)
(***************************************************************************)
Orders ==
    << <<"payment", "book", "customer">>, <<"payment", "customer", "book">>,
       <<"book", "payment", "customer">>, <<"book", "customer", "payment">>,
       <<"customer", "payment", "book">>, <<"customer", "book", "payment">> >>

\* The call before has returned and the next stage of the order being tried is s
AnyNextIs(s) ==
    /\ pc = "done"
    /\ report.stage \in {"prechecks", "payment", "book", "customer"}
    /\ trial.k \in DOMAIN Orders
    /\ clock \in DOMAIN Orders[trial.k]
    /\ Orders[trial.k][clock] = s

AnyPayment == AnyNextIs("payment") /\ PmStart(paym, FALSE)
AnyBook == AnyNextIs("book") /\ BkStart(book, FALSE)
AnyCustomer == AnyNextIs("customer") /\ CuStart(cust, FALSE)

\* python step3_load.py --only fact, once the three loaders have run
AnyFact ==
    /\ pc = "done"
    /\ report.stage \in {"payment", "book", "customer"}
    /\ trial.k \in DOMAIN Orders
    /\ clock > Len(Orders[trial.k])
    /\ FtStart(fact, FALSE)

\* The dimension tables without their timestamps (a closed version stays closed)
BookContents == {[x EXCEPT !.UpdatedAt = 0] : x \in Dim_Book}
CustomerContents ==
    {[x EXCEPT !.ValidFrom = 0, !.ValidTo = IF @ = None THEN None ELSE Some(0)] :
        x \in Dim_Customer}

\* What an order has produced when the fact reload has ended: the dimension
\* tables, the lookup maps that can be built from them (two keys of a table that
\* differ in case only share one entry, and the SELECT has no ORDER BY), the maps
\* the reload did build, the fact table and the counters
AnyOutcome ==
    [pm |-> Dim_PaymentMethod, bk |-> BookContents, cu |-> CustomerContents,
     lk |-> stage_build_lookups,
     used |-> IF loc.stage = "fact" THEN {loc.lk} ELSE {},
     fact |-> Fact_Sales, report |-> report]

\* Two outcomes agree: the same dimension tables and possible lookup maps, and the
\* same fact table and counters when the reload built the same maps
AnyAgree(o1, o2) ==
    /\ o1.pm = o2.pm /\ o1.bk = o2.bk /\ o1.cu = o2.cu
    /\ o1.lk = o2.lk
    /\ o1.used = o2.used => (o1.fact = o2.fact /\ o1.report = o2.report)

\* The fact reload of the order being tried has ended: its outcome is kept, the
\* warehouse is put back to the contents the comparison began from, and the next
\* order starts from the datasets of the same transform folder
AnyRecord ==
    /\ pc \in {"done", "failed"}
    /\ report.stage = "fact"
    /\ trial.k \in DOMAIN Orders
    /\ trial' = [trial EXCEPT !.k = @ + 1, !.seen = @ \cup {AnyOutcome}]
    /\ Dim_PaymentMethod' = trial.w.pm
    /\ Dim_Book' = trial.w.bk
    /\ Dim_Customer' = trial.w.cu
    /\ Fact_Sales' = {}
    /\ clock' = 1
    /\ pc' = "done"
    /\ i' = 1
    /\ loc' = NoLoc
    /\ hist' = NoHist
    /\ report' = [stage |-> "prechecks",
                  rows |-> [paym |-> Len(paym), book |-> Len(book),
                            cust |-> Len(cust.rows), fact |-> Len(fact.rows)]]
    /\ UNCHANGED <<ci, Dim_Date, paym, book, cust, fact>>

InitAnyOrder ==
    /\ ci \in BOOLEAN
    /\ clock = 1
    /\ \E w \in Warehouses :
          /\ ci => w.ci_ok
          /\ Dim_PaymentMethod = w.pm
          /\ Dim_Book = w.bk
          /\ Dim_Customer = w.cu
    /\ trial = [w |-> [pm |-> Dim_PaymentMethod, bk |-> Dim_Book, cu |-> Dim_Customer],
                k |-> 1, seen |-> {}]
    /\ Dim_Date = Calendar
    /\ Fact_Sales = {}
    /\ paym = NoRows
    /\ book = NoRows
    /\ cust = NoCust
    /\ fact = NoFact
    /\ pc = "idle"
    /\ i = 1
    /\ loc = NoLoc
    /\ report = NoReport
    /\ hist = NoHist

NextAnyOrder ==
    \/ AllPrechecks
    \/ AnyPayment \/ PmRow \/ PmFinish
    \/ AnyBook \/ BkRow \/ BkFinish
    \/ AnyCustomer \/ CuRow \/ CuInsertNew \/ CuFinish
    \/ AnyFact \/ FtTruncate \/ FtRow \/ FtFinish
    \/ AnyRecord

SpecAnyOrder == InitAnyOrder /\ [][NextAnyOrder]_vars

\* C27: from the same warehouse and the same staged datasets, the six orders of the
\* payment, book and customer loaders end with the same outcome: the same rows in
\* every dimension table (timestamps left aside), hence the same lookup maps that can
\* be built from them and, for the same lookup maps, the same rows in Fact_Sales and
\* the same counters of the fact reload.
C27_OrderInsensitive ==
    /\ \A o1, o2 \in trial.seen : AnyAgree(o1, o2)
    /\ (report.stage = "fact" /\ pc \in {"done", "failed"}) =>
          \A o \in trial.seen : AnyAgree(o, AnyOutcome)

\* The six orders have all been tried from one warehouse, and in each every loader
\* inserted rows that the fact reload then resolved into inserted fact rows
C27_Witness ==
    /\ trial.k = Len(Orders) + 1
    /\ \E o \in trial.seen :
          /\ o.pm # trial.w.pm
          /\ Cardinality(o.bk) > Cardinality(trial.w.bk)
          /\ Cardinality(o.cu) > Cardinality(trial.w.cu)
          /\ o.fact # {}

====
